---- MODULE Spec2Model ----
(***************************************************************************)
(* Battlefield 6 TTK analysis: the weapon analytics engine (js/utils.js,   *)
(* js/data.js) as a state machine.                                         *)
(*                                                                         *)
(* Numbers.  A finite JavaScript number x is held as the integer 10*x      *)
(* (tenths): damage 33.5 is 335, 600 rpm is 6000, a TTK of 214.3 ms is     *)
(* 2143.  Every input of the model has at most one decimal, and every      *)
(* result of the program that is stored or returned is rounded to one      *)
(* decimal by the program itself (Math.round(x * 10) / 10) or is kept as   *)
(* an exact fraction (averageDamage).  Arithmetic is exact; the binary     *)
(* floating point error of the real engine (below 1e-9 on these            *)
(* magnitudes) is not modelled.                                            *)
(*                                                                         *)
(* Values.  A JavaScript value is a record tagged by k: null, undefined,   *)
(* NaN, +/-Infinity, a finite number, or a string.  A string that the      *)
(* program inspects character by character (raw CSV cells, weapon names    *)
(* and types) is a sequence of one-character strings; a string that is     *)
(* only used as a key (a range label, a column name) is a TLA+ string.     *)
(***************************************************************************)
EXTENDS Integers, Sequences, FiniteSets, TLC

VARIABLES weaponsData, filteredData, loads, call,
          currentFilters, isDarkTheme, timeout, timers, now

(* the state of the page: main.js globals, the timer id held by the        *)
(* debounced search handler, the timers set and not yet run or cleared,    *)
(* and the clock                                                           *)
pageVars == <<currentFilters, isDarkTheme, timeout, timers, now>>

vars == <<weaponsData, filteredData, loads, call, currentFilters, isDarkTheme,
          timeout, timers, now>>

-----------------------------------------------------------------------------
(* JavaScript values *)

Null == [k |-> "null"]

Undefined == [k |-> "undefined"]

NaN == [k |-> "NaN"]

Inf(sgn) == [k |-> "inf", sgn |-> sgn]

Num(v) == [k |-> "num", v |-> v]

Str(s) == [k |-> "str", s |-> s]

\* isNaN(x) for a value that is already a number
IsNaN(x) == x.k = "NaN"

\* !x : the falsy values are null, undefined, NaN, 0, '' and false
Falsy(x) ==
    \/ x.k \in {"null", "undefined", "NaN"}
    \/ (x.k = "num" /\ x.v = 0)
    \/ (x.k = "str" /\ x.s = <<>>)
    \/ (x.k = "bool" /\ ~x.b)

\* x <= 0 for a number value (NaN compares false)
LeqZero(x) ==
    \/ (x.k = "num" /\ x.v <= 0)
    \/ (x.k = "inf" /\ x.sgn < 0)

-----------------------------------------------------------------------------
(* Exact arithmetic helpers: the Math functions on a fraction n/d, d > 0 *)

\* Math.ceil(n / d)
Ceil(n, d) == -((-n) \div d)

\* Math.round(n / d): the nearest integer, a tie going up (towards +Infinity)
Round(n, d) == (2 * n + d) \div (2 * d)

RECURSIVE GCD(_, _)
GCD(a, b) == IF b = 0 THEN a ELSE GCD(b, a % b)

Abs(n) == IF n < 0 THEN -n ELSE n

-----------------------------------------------------------------------------
(* Strings as character sequences *)

LowerChars == <<"a","b","c","d","e","f","g","h","i","j","k","l","m",
                "n","o","p","q","r","s","t","u","v","w","x","y","z">>

UpperChars == <<"A","B","C","D","E","F","G","H","I","J","K","L","M",
                "N","O","P","Q","R","S","T","U","V","W","X","Y","Z">>

Digits == <<"0","1","2","3","4","5","6","7","8","9">>

IsDigit(c) == \E i \in 1..10 : Digits[i] = c

DigitVal(c) == (CHOOSE i \in 1..10 : Digits[i] = c) - 1

IsSpace(c) == c \in {" ", "\t", "\n"}

ToUpperChar(c) ==
    IF \E i \in 1..26 : LowerChars[i] = c
    THEN UpperChars[CHOOSE i \in 1..26 : LowerChars[i] = c]
    ELSE c

ToLowerChar(c) ==
    IF \E i \in 1..26 : UpperChars[i] = c
    THEN LowerChars[CHOOSE i \in 1..26 : UpperChars[i] = c]
    ELSE c

\* String.prototype.toUpperCase
toUpperCase(s) == [i \in 1..Len(s) |-> ToUpperChar(s[i])]

\* String.prototype.toLowerCase
toLowerCase(s) == [i \in 1..Len(s) |-> ToLowerChar(s[i])]

RECURSIVE TrimStart(_)
TrimStart(s) ==
    IF s # <<>> /\ IsSpace(Head(s)) THEN TrimStart(Tail(s)) ELSE s

RECURSIVE TrimEnd(_)
TrimEnd(s) ==
    IF s # <<>> /\ IsSpace(s[Len(s)]) THEN TrimEnd(SubSeq(s, 1, Len(s) - 1)) ELSE s

\* String.prototype.trim
trim(s) == TrimEnd(TrimStart(s))

\* s starts with the characters of t
StartsWith(s, t) == Len(s) >= Len(t) /\ SubSeq(s, 1, Len(t)) = t

\* String.prototype.includes
includes(s, t) ==
    \E i \in 0..(Len(s) - Len(t)) : SubSeq(s, i + 1, i + Len(t)) = t

InfinityLit == <<"I","n","f","i","n","i","t","y">>

\* the length of the run of digits that s starts with
RECURSIVE DigitRun(_)
DigitRun(s) ==
    IF s # <<>> /\ IsDigit(Head(s)) THEN 1 + DigitRun(Tail(s)) ELSE 0

\* the value of a sequence of digits
RECURSIVE DigitsVal(_)
DigitsVal(s) ==
    IF s = <<>> THEN 0 ELSE 10 * DigitsVal(SubSeq(s, 1, Len(s) - 1)) + DigitVal(s[Len(s)])

(* The longest prefix of s that is a StrDecimalLiteral (sign, then Infinity *)
(* or digits with an optional fraction), as [len, val]: len = 0 when s      *)
(* starts with no number.  The value is in tenths; the model's strings     *)
(* have at most one fractional digit and no exponent part.                 *)
NumericPrefix(s) ==
    LET signed == s # <<>> /\ Head(s) \in {"+", "-"}
        sgn    == IF signed /\ Head(s) = "-" THEN -1 ELSE 1
        body   == IF signed THEN Tail(s) ELSE s
        off    == IF signed THEN 1 ELSE 0
        ni     == DigitRun(body)
        dot    == Len(body) > ni /\ body[ni + 1] = "."
        nf     == IF dot THEN DigitRun(SubSeq(body, ni + 2, Len(body))) ELSE 0
        ipart  == DigitsVal(SubSeq(body, 1, ni))
        fpart  == IF nf > 0 THEN DigitVal(body[ni + 2]) ELSE 0
    IN  IF StartsWith(body, InfinityLit)
        THEN [len |-> off + Len(InfinityLit), val |-> Inf(sgn)]
        ELSE IF ni = 0 /\ nf = 0
        THEN [len |-> 0, val |-> NaN]
        ELSE [len |-> off + ni + (IF dot THEN 1 + nf ELSE 0),
              val |-> Num(sgn * (10 * ipart + fpart))]

(* parseFloat(value): the argument is converted to a string, leading white *)
(* space is skipped and the longest numeric prefix is parsed; what follows *)
(* the prefix is ignored.  A finite number or an Infinity prints and       *)
(* parses back to itself; null, undefined and NaN print as words that      *)
(* start with no number.                                                   *)
parseFloat(value) ==
    CASE value.k = "str" -> NumericPrefix(TrimStart(value.s)).val
      [] value.k \in {"num", "inf"} -> value
      [] OTHER -> NaN

(* Number(value): null and the empty or blank string are 0, undefined is   *)
(* NaN, and a string is a number only when the whole trimmed string is one *)
Number(value) ==
    CASE value.k = "str" ->
            LET t == trim(value.s)
                p == NumericPrefix(t)
            IN  IF t = <<>> THEN Num(0)
                ELSE IF p.len = Len(t) THEN p.val ELSE NaN
      [] value.k = "null" -> Num(0)
      [] value.k = "undefined" -> NaN
      [] OTHER -> value

-----------------------------------------------------------------------------
(* Fractions n/d in lowest terms, d > 0: the hit probability of the recoil *)
(* model and the average damage                                            *)

Rat(n, d) == [k |-> "rat", n |-> n, d |-> d]

RatNorm(n, d) ==
    LET g == GCD(Abs(n), d)
    IN  Rat(n \div g, d \div g)

RatMul(a, b) == RatNorm(a.n * b.n, a.d * b.d)

RatLess(a, b) == a.n * b.d < b.n * a.d

\* a number value x (tenths) divided by 100
Percent(x) == RatNorm(x.v, 1000)

-----------------------------------------------------------------------------
(* utils.js: constants *)

PLAYER_HEALTH == 100

RANGES == <<"10M", "20M", "35M", "50M", "70M">>

RangeSet == {RANGES[i] : i \in 1..Len(RANGES)}

SNIPER_RIFLE == <<"S","N","I","P","E","R"," ","R","I","F","L","E">>

SHOTGUN == <<"S","H","O","T","G","U","N">>

-----------------------------------------------------------------------------
(* utils.js: the metric calculator *)

\* getRangeAccuracyMultiplier(range): the map, 1.0 for a range it does not hold
getRangeAccuracyMultiplier(range) ==
    CASE range = "10M" -> RatNorm(100, 100)
      [] range = "20M" -> RatNorm(95, 100)
      [] range = "35M" -> RatNorm(90, 100)
      [] range = "50M" -> RatNorm(85, 100)
      [] range = "70M" -> RatNorm(80, 100)
      [] OTHER -> RatNorm(100, 100)

\* the guard both TTK functions open with:
\* !damage || !rpm || damage <= 0 || rpm <= 0
TTKGuard(damage, rpm) ==
    Falsy(damage) \/ Falsy(rpm) \/ LeqZero(damage) \/ LeqZero(rpm)

\* mutant: Math.floor in the place of Math.ceil
CeilHealthOver_floor(damage) ==
    IF damage.k = "inf" THEN 0 ELSE (PLAYER_HEALTH * 10) \div damage.v

\* Math.ceil(PLAYER_HEALTH / damage) for a damage that passed the guard
\* (100 / Infinity is 0)
CeilHealthOver(damage) ==
    IF damage.k = "inf" THEN 0 ELSE Ceil(PLAYER_HEALTH * 10, damage.v)

\* mutant: the rounded value returned as it is
ZeroFloor_none(finalTTK) == finalTTK

\* finalTTK === 0 ? 1 : finalTTK (a value in tenths)
ZeroFloor(finalTTK) == IF finalTTK = 0 THEN 10 ELSE finalTTK

(* The tail of both TTK functions, from the shot count on:                 *)
(*   ttk = (shots - 1) * (60000 / rpm) + ads                               *)
(*   finalTTK = Math.round(ttk * 10) / 10;  finalTTK === 0 ? 1 : finalTTK  *)
(* In tenths ttk * 10 is (shots - 1) * 6000000 / rpm.v + ads.v; ads.v is a *)
(* whole number of tenths, so it is added after the rounding, which keeps  *)
(* the intermediate products small.  60000 / Infinity is 0.                *)
TTKFrom(shots, rpm, ads) ==
    IF ads.k = "inf" THEN ads
    ELSE LET fire == IF rpm.k = "inf" THEN 0
                     ELSE Round((shots - 1) * 6000000, rpm.v)
         IN  Num(ZeroFloor(fire + ads.v))

\* calculateTTK(damage, rpm, adsTime = 0)
calculateTTK(damage, rpm, adsTime) ==
    IF TTKGuard(damage, rpm) THEN Null
    ELSE LET shotsToKill == CeilHealthOver(damage)
             ads == IF Falsy(adsTime) THEN Num(0) ELSE adsTime
         IN  TTKFrom(shotsToKill, rpm, ads)

\* calculateShotsToKill(damage)
calculateShotsToKill(damage) ==
    IF Falsy(damage) \/ LeqZero(damage) THEN Null
    ELSE Num(10 * CeilHealthOver(damage))

\* a default parameter value: used when the argument is undefined
Default(arg, dflt) == IF arg = Undefined THEN dflt ELSE arg

\* (Number(precision) / 100) * (Number(control) / 100)
HitPctBase(precision, control) ==
    LET pn == Number(precision)
        cn == Number(control)
    IN  IF pn.k = "NaN" \/ cn.k = "NaN" THEN NaN
        ELSE IF pn.k = "inf" \/ cn.k = "inf"
        THEN (IF (pn.k = "num" /\ pn.v = 0) \/ (cn.k = "num" /\ cn.v = 0)
              THEN NaN
              ELSE LET sp == IF pn.k = "inf" THEN pn.sgn ELSE (IF pn.v < 0 THEN -1 ELSE 1)
                       sc == IF cn.k = "inf" THEN cn.sgn ELSE (IF cn.v < 0 THEN -1 ELSE 1)
                   IN  Inf(sp * sc))
        ELSE RatMul(Percent(pn), Percent(cn))

\* Math.max(hitPct, floor) for a fraction floor
MathMax(hitPct, floor) ==
    CASE hitPct.k = "NaN" -> NaN
      [] hitPct.k = "inf" -> IF hitPct.sgn > 0 THEN hitPct ELSE floor
      [] OTHER -> IF RatLess(hitPct, floor) THEN floor ELSE hitPct

\* Math.min(ceiling, x) for a fraction ceiling
MathMin(ceiling, x) ==
    CASE x.k = "NaN" -> NaN
      [] x.k = "inf" -> IF x.sgn > 0 THEN ceiling ELSE x
      [] OTHER -> IF RatLess(ceiling, x) THEN ceiling ELSE x

\* mutant: no floor at 10M
NearRangeFloor_none(hitPct, range) == hitPct

\* if (range === '10M') hitPct = Math.max(hitPct, 0.9)
NearRangeFloor(hitPct, range) ==
    IF range = "10M" THEN MathMax(hitPct, RatNorm(90, 100)) ELSE hitPct

\* p = Math.min(1, Math.max(0.05, hitPct))
ClampProbability(hitPct) ==
    MathMin(RatNorm(1, 1), MathMax(hitPct, RatNorm(5, 100)))

\* the final hit probability p of the recoil model (not immune)
HitProbability(precision, control, range) ==
    LET base == HitPctBase(precision, control)
        hitPct == IF base.k = "rat"
                  THEN RatMul(base, getRangeAccuracyMultiplier(range))
                  ELSE base
    IN  ClampProbability(NearRangeFloor(hitPct, range))

\* mutant: the type compared as it is written, without toUpperCase
IsImmune_caseSensitive(weaponType) ==
    LET type == IF Falsy(weaponType) THEN <<>> ELSE weaponType.s
    IN  type = SNIPER_RIFLE \/ type = SHOTGUN

\* type === 'SNIPER RIFLE' || type === 'SHOTGUN', type = (weaponType || '').toUpperCase()
IsImmune(weaponType) ==
    LET type == IF Falsy(weaponType) THEN <<>> ELSE toUpperCase(weaponType.s)
    IN  type = SNIPER_RIFLE \/ type = SHOTGUN

\* Math.ceil(requiredHits / p)
ExpectedShots(requiredHits, p) == Ceil(requiredHits * p.d, p.n)

\* calculateRecoilAdjustedTTK(damage, rpm, precision = 100, control = 100,
\*                            range = '10M', weaponType = '')
calculateRecoilAdjustedTTK(damage, rpm, precision, control, range, weaponType) ==
    IF TTKGuard(damage, rpm) THEN Null
    ELSE LET requiredHits == CeilHealthOver(damage)
             p == HitProbability(Default(precision, Num(1000)),
                                 Default(control, Num(1000)), range)
         IN  IF IsImmune(Default(weaponType, Str(<<>>)))
             THEN TTKFrom(requiredHits, rpm, Num(0))
             ELSE IF p.k = "NaN" THEN NaN
             ELSE TTKFrom(ExpectedShots(requiredHits, p), rpm, Num(0))

-----------------------------------------------------------------------------
(* Weapon records: a function from field name to value *)

\* weapon[field]: undefined for a field the object does not have
Get(weapon, field) ==
    IF field \in DOMAIN weapon THEN weapon[field] ELSE Undefined

RECURSIVE SumSeq(_)
SumSeq(s) == IF s = <<>> THEN 0 ELSE Head(s) + SumSeq(Tail(s))

\* mutant: a required field tested for truthiness, which rejects 0
isWeaponDataComplete_falsy(weapon) ==
    \A field \in {"Weapon", "Weapon Type", "RPM", "ADS"} \cup RangeSet :
        ~Falsy(Get(weapon, field))

\* isWeaponDataComplete(weapon)
isWeaponDataComplete(weapon) ==
    LET requiredFields == <<"Weapon", "Weapon Type", "RPM", "ADS">> \o RANGES
        present(value) == value # Null /\ value # Undefined /\ value # Str(<<>>)
    IN  \A i \in 1..Len(requiredFields) :
            LET field == requiredFields[i]
                value == Get(weapon, field)
            IN  IF field = "Weapon" \/ field = "Weapon Type"
                THEN present(value)
                ELSE present(value) /\ ~IsNaN(parseFloat(value))

(* getAverageDamage(weapon): the mean of the range damages that parse to a *)
(* number, as a fraction of tenths; null when there is none.  A sum that   *)
(* holds an Infinity is that Infinity, and NaN when it holds both signs.   *)
getAverageDamage(weapon) ==
    LET parsed == [i \in 1..Len(RANGES) |-> parseFloat(Get(weapon, RANGES[i]))]
        notNaN(d) == ~IsNaN(d)
        damages == SelectSeq(parsed, notNaN)
        finite == [i \in 1..Len(damages) |->
                     IF damages[i].k = "num" THEN damages[i].v ELSE 0]
        signs == {damages[i].sgn : i \in {j \in 1..Len(damages) : damages[j].k = "inf"}}
    IN  IF damages = <<>> THEN Null
        ELSE IF signs = {} THEN RatNorm(SumSeq(finite), Len(damages))
        ELSE IF Cardinality(signs) = 1 THEN Inf(CHOOSE sg \in signs : TRUE)
        ELSE NaN

(* getDamageDropoff(weapon, rangeStart, rangeEnd):                         *)
(*   Math.round(((start - end) / start) * 100 * 10) / 10, in tenths        *)
(*   Round(1000 * (start - end), start)                                    *)
getDamageDropoff(weapon, rangeStart, rangeEnd) ==
    LET startDamage == parseFloat(Get(weapon, rangeStart))
        endDamage == parseFloat(Get(weapon, rangeEnd))
    IN  IF Falsy(startDamage) \/ Falsy(endDamage) THEN Null
        ELSE IF startDamage.k = "inf" THEN NaN
        ELSE IF endDamage.k = "inf"
        THEN Inf(IF (startDamage.v > 0) = (endDamage.sgn > 0) THEN -1 ELSE 1)
        ELSE IF startDamage.v > 0
        THEN Num(Round(1000 * (startDamage.v - endDamage.v), startDamage.v))
        ELSE Num(Round(1000 * (endDamage.v - startDamage.v), -startDamage.v))

-----------------------------------------------------------------------------
(* data.js: the normalizer *)

\* parseNumeric(value)
parseNumeric(value) ==
    IF value = Null \/ value = Undefined \/ value = Str(<<>>) THEN Null
    ELSE LET parsed == parseFloat(value)
         IN  IF IsNaN(parsed) THEN Null ELSE parsed

\* (row[column] || '').trim()
TrimmedCell(row, column) ==
    LET value == Get(row, column)
    IN  Str(IF Falsy(value) THEN <<>> ELSE trim(value.s))

\* the object literal that opens the map callback of processWeaponData
StoredFields(row) ==
    [f \in {"Weapon Type", "Weapon"} |-> TrimmedCell(row, f)]
    @@ [f \in RangeSet \cup {"RPM", "DPS", "ADS"} |-> parseNumeric(Get(row, f))]

TTKKey(range) ==
    CASE range = "10M" -> "TTK_10M"
      [] range = "20M" -> "TTK_20M"
      [] range = "35M" -> "TTK_35M"
      [] range = "50M" -> "TTK_50M"
      [] range = "70M" -> "TTK_70M"

STKKey(range) ==
    CASE range = "10M" -> "STK_10M"
      [] range = "20M" -> "STK_20M"
      [] range = "35M" -> "STK_35M"
      [] range = "50M" -> "STK_50M"
      [] range = "70M" -> "STK_70M"

TTKKeys == {TTKKey(r) : r \in RangeSet}

STKKeys == {STKKey(r) : r \in RangeSet}

\* the range a derived field belongs to
RangeOfKey(key) == CHOOSE r \in RangeSet : key \in {TTKKey(r), STKKey(r)}

\* mutant: the cached TTK takes the ADS time of the weapon in
NormalizeRow_adsTTK(row) ==
    LET weapon == StoredFields(row)
        withTTK == weapon @@
            [f \in TTKKeys |->
                calculateTTK(weapon[RangeOfKey(f)], weapon["RPM"], weapon["ADS"])]
        withSTK == withTTK @@
            [f \in STKKeys |-> calculateShotsToKill(weapon[RangeOfKey(f)])]
    IN  withSTK @@
        [f \in {"isComplete"} |-> isWeaponDataComplete(withSTK)] @@
        [f \in {"averageDamage"} |-> getAverageDamage(withSTK)]

\* the map callback of processWeaponData: one raw row to one weapon object
NormalizeRow(row) ==
    LET weapon == StoredFields(row)
        withTTK == weapon @@
            [f \in TTKKeys |-> calculateTTK(weapon[RangeOfKey(f)], weapon["RPM"], Num(0))]
        withSTK == withTTK @@
            [f \in STKKeys |-> calculateShotsToKill(weapon[RangeOfKey(f)])]
    IN  withSTK @@
        [f \in {"isComplete"} |-> isWeaponDataComplete(withSTK)] @@
        [f \in {"averageDamage"} |-> getAverageDamage(withSTK)]

\* mutant: only the name is looked at
IsNamed_nameOnly(weapon) == ~Falsy(weapon["Weapon"])

\* .filter(weapon => weapon.Weapon && weapon['Weapon Type'])
IsNamed(weapon) == ~Falsy(weapon["Weapon"]) /\ ~Falsy(weapon["Weapon Type"])

\* processWeaponData(rawData)
processWeaponData(rawData) ==
    SelectSeq([i \in 1..Len(rawData) |-> NormalizeRow(rawData[i])], IsNamed)

-----------------------------------------------------------------------------
(* utils.js and data.js: the query engine.  A collection is a sequence of  *)
(* weapon records; a metric key and a range label are strings; a filter    *)
(* object is a function from option name to value.                         *)

\* x < y on two numbers (a comparison with NaN is false)
NumLess(x, y) ==
    CASE x.k = "NaN" \/ y.k = "NaN" -> FALSE
      [] x.k = "inf" -> x.sgn < 0 /\ ~(y.k = "inf" /\ y.sgn < 0)
      [] y.k = "inf" -> y.sgn > 0
      [] OTHER -> x.v < y.v

(* ToNumber, the conversion applied to an operand of < and of -, for an    *)
(* operand that is no string: null is 0, undefined is NaN                  *)
ToNumber(value) ==
    CASE value.k = "null" -> Num(0)
      [] value.k = "undefined" -> NaN
      [] OTHER -> value

\* x < y : both operands are converted to numbers
LessThan(x, y) == NumLess(ToNumber(x), ToNumber(y))

\* mutant: no substitute for a missing value
OrElse_never(x, alt) == x

\* x || alt
OrElse(x, alt) == IF Falsy(x) THEN alt ELSE x

(* The sign of a - b for two numbers: "neg", "zero" or "pos", and "NaN"    *)
(* for Infinity - Infinity and for a NaN operand                           *)
NumMinusSign(a, b) ==
    CASE a.k = "NaN" \/ b.k = "NaN" -> "NaN"
      [] a.k = "inf" /\ b.k = "inf" /\ a.sgn = b.sgn -> "NaN"
      [] NumLess(a, b) -> "neg"
      [] NumLess(b, a) -> "pos"
      [] OTHER -> "zero"

\* the sign of x - y
MinusSign(x, y) == NumMinusSign(ToNumber(x), ToNumber(y))

(* One operand of the comparator's subtraction: the TTK of the record or   *)
(* Infinity for 'ttk', the parsed field or 0 for the other metrics         *)
SortOperand(w, sortBy, range) ==
    IF sortBy = "ttk"
    THEN OrElse(calculateTTK(parseFloat(Get(w, range)),
                             parseFloat(Get(w, "RPM")), Num(0)), Inf(1))
    ELSE OrElse(parseFloat(Get(w, CASE sortBy = "damage" -> range
                                    [] sortBy = "rpm" -> "RPM"
                                    [] sortBy = "dps" -> "DPS")), Num(0))

(* The comparator sortWeapons hands to Array.prototype.sort: a minus b for *)
(* 'ttk', b minus a for 'damage', 'rpm' and 'dps', 0 for any other metric  *)
SortComparator(a, b, sortBy, range) ==
    IF sortBy \notin {"ttk", "damage", "rpm", "dps"} THEN "zero"
    ELSE MinusSign(SortOperand(IF sortBy = "ttk" THEN a ELSE b, sortBy, range),
                   SortOperand(IF sortBy = "ttk" THEN b ELSE a, sortBy, range))

\* mutant: the ttk comparator with its operands exchanged
SortsBefore_reversed(a, b, sortBy, range) ==
    SortComparator(b, a, sortBy, range) = "neg"

\* mutant: equal keys count as out of order
SortsBefore_unstable(a, b, sortBy, range) ==
    SortComparator(a, b, sortBy, range) \in {"neg", "zero", "NaN"}

(* Array.prototype.sort places a before b when the comparator returns a    *)
(* negative number; a NaN result is read as +0 (SortCompare)               *)
SortsBefore(a, b, sortBy, range) ==
    SortComparator(a, b, sortBy, range) = "neg"

(* Array.prototype.sort is stable (ECMAScript 2019): an element goes in    *)
(* front of the first one it sorts before, behind the equal ones already   *)
(* placed                                                                  *)
InsertInOrder(sorted, w, sortBy, range) ==
    CHOOSE inserted \in
        {LET at == IF later = {} THEN Len(sorted) + 1
                   ELSE CHOOSE i \in later : \A j \in later : i <= j
         IN  SubSeq(sorted, 1, at - 1) \o <<w>> \o SubSeq(sorted, at, Len(sorted)) :
            later \in {{i \in 1..Len(sorted) :
                           SortsBefore(w, sorted[i], sortBy, range)}}} : TRUE

\* [...weapons].sort(comparator) : a sorted copy, the argument untouched.
\* (An intermediate value is bound by CHOOSE over a one-element set, so
\* that it is evaluated once.)
RECURSIVE sortWeapons(_, _, _)
sortWeapons(weapons, sortBy, range) ==
    IF weapons = <<>> THEN <<>>
    ELSE CHOOSE sorted \in
            {InsertInOrder(front, weapons[Len(weapons)], sortBy, range) :
                front \in {sortWeapons(SubSeq(weapons, 1, Len(weapons) - 1),
                                       sortBy, range)}} : TRUE

\* Array.prototype.slice(0, n): a negative n counts from the end
SliceTo(s, n) ==
    LET end == IF n < 0 THEN (IF Len(s) + n < 0 THEN 0 ELSE Len(s) + n)
               ELSE (IF n > Len(s) THEN Len(s) ELSE n)
    IN  SubSeq(s, 1, end)

\* the filter callback of getTopWeapons
HasMetricFields(w, metric, range) ==
    CASE metric = "dps" -> Get(w, "DPS") # Null
      [] metric = "rpm" -> Get(w, "RPM") # Null
      [] OTHER -> Get(w, range) # Null /\ Get(w, "RPM") # Null

\* getTopWeapons(n, metric, range), on the master collection
getTopWeapons(n, metric, range) ==
    LET valid(w) == HasMetricFields(w, metric, range)
    IN  CHOOSE top \in
            {SliceTo(sorted, n) :
                sorted \in {sortWeapons(validWeapons, metric, range) :
                    validWeapons \in {SelectSeq(weaponsData, valid)}}} : TRUE

\* getWeaponsForRange(range, limit), on the master collection
getWeaponsForRange(range, limit) ==
    LET valid(w) == Get(w, range) # Null /\ Get(w, "RPM") # Null
    IN  CHOOSE top \in
            {SliceTo(sorted, limit) :
                sorted \in {sortWeapons(validWeapons, "ttk", range) :
                    validWeapons \in {SelectSeq(weaponsData, valid)}}} : TRUE

\* the filter callback of getBestWeaponAtRange: damage && rpm
HasDamageAndRpm(w, range) ==
    /\ ~Falsy(parseFloat(Get(w, range)))
    /\ ~Falsy(parseFloat(Get(w, "RPM")))

\* the reduce callback of getBestWeaponAtRange
BetterOf(best, current, range) ==
    LET bestTTK == calculateTTK(parseFloat(Get(best, range)),
                                parseFloat(Get(best, "RPM")), Num(0))
        currentTTK == calculateTTK(parseFloat(Get(current, range)),
                                   parseFloat(Get(current, "RPM")), Num(0))
    IN  IF LessThan(currentTTK, bestTTK) THEN current ELSE best

\* validWeapons.reduce(callback) without an initial value
RECURSIVE ReduceBest(_, _)
ReduceBest(validWeapons, range) ==
    IF Len(validWeapons) = 1 THEN validWeapons[1]
    ELSE CHOOSE better \in
            {BetterOf(best, validWeapons[Len(validWeapons)], range) :
                best \in {ReduceBest(SubSeq(validWeapons, 1, Len(validWeapons) - 1),
                                     range)}} : TRUE

\* getBestWeaponAtRange(weapons, range); the record is returned in ret.w
getBestWeaponAtRange(weapons, range) ==
    LET valid(w) == HasDamageAndRpm(w, range)
    IN  CHOOSE best \in
            {IF Len(validWeapons) = 0 THEN Null
             ELSE [k |-> "obj", w |-> ReduceBest(validWeapons, range)] :
                validWeapons \in {SelectSeq(weapons, valid)}} : TRUE

\* an array value
Arr(a) == [k |-> "arr", a |-> a]

\* a boolean value
Bool(b) == [k |-> "bool", b |-> b]

ALL == <<"A","L","L">>

\* types.includes(x)
ArrayIncludes(a, x) == \E i \in 1..Len(a) : a[i] = x

\* filterWeaponsByType(weapons, types)
filterWeaponsByType(weapons, types) ==
    IF Falsy(types) \/ Len(types.a) = 0 \/ ArrayIncludes(types.a, ALL)
    THEN weapons
    ELSE LET ofType(w) == ArrayIncludes(types.a, w["Weapon Type"].s)
         IN  SelectSeq(weapons, ofType)

\* searchWeapons(weapons, searchTerm)
searchWeapons(weapons, searchTerm) ==
    IF Falsy(searchTerm) \/ trim(searchTerm.s) = <<>>
    THEN weapons
    ELSE LET term == toLowerCase(searchTerm.s)
             matches(w) ==
                \/ includes(toLowerCase(w["Weapon"].s), term)
                \/ includes(toLowerCase(w["Weapon Type"].s), term)
         IN  SelectSeq(weapons, matches)

\* a bound of the RPM filter is looked at when it is truthy
BoundGiven(bound) == ~Falsy(bound)

\* the filter callback of the RPM stage of applyFilters
WithinRPM(w, filters) ==
    LET rpm == w["RPM"]
    IN  /\ rpm # Null
        /\ ~(BoundGiven(Get(filters, "minRPM")) /\ LessThan(rpm, Get(filters, "minRPM")))
        /\ ~(BoundGiven(Get(filters, "maxRPM")) /\ LessThan(Get(filters, "maxRPM"), rpm))

\* mutant: the stages replace one another instead of narrowing
SearchStage_fromMaster(data, filters) ==
    IF ~Falsy(Get(filters, "search"))
    THEN searchWeapons(weaponsData, Get(filters, "search"))
    ELSE data

\* the type stage of applyFilters
TypeStage(data, filters) ==
    LET types == Get(filters, "types")
    IN  IF ~Falsy(types) /\ Len(types.a) > 0 /\ ~ArrayIncludes(types.a, ALL)
        THEN filterWeaponsByType(data, types)
        ELSE data

\* the search stage of applyFilters
SearchStage(data, filters) ==
    IF ~Falsy(Get(filters, "search"))
    THEN searchWeapons(data, Get(filters, "search"))
    ELSE data

\* the completeness stage of applyFilters
CompleteStage(data, filters) ==
    IF ~Falsy(Get(filters, "completeOnly"))
    THEN SelectSeq(data, isWeaponDataComplete)
    ELSE data

\* the RPM stage of applyFilters
RPMStage(data, filters) ==
    IF BoundGiven(Get(filters, "minRPM")) \/ BoundGiven(Get(filters, "maxRPM"))
    THEN LET within(w) == WithinRPM(w, filters)
         IN  SelectSeq(data, within)
    ELSE data

\* applyFilters(filters): the value assigned to filteredData and returned
applyFilters(filters) ==
    RPMStage(CompleteStage(SearchStage(TypeStage(weaponsData, filters), filters),
                           filters), filters)

-----------------------------------------------------------------------------
(* Inputs of the calculator calls *)

DamageInputs ==
    {Null, Undefined, NaN, Inf(1), Num(-50), Num(0), Num(10), Num(250), Num(330),
     Num(335), Num(500), Num(1000), Num(1500)}

\* 40, 600 and 900 rpm, the rate at which one interval is 1 ms (60000 rpm)
\* and two rates beyond it
RpmInputs ==
    {Null, NaN, Inf(1), Num(-6000), Num(0), Num(400), Num(6000), Num(9000),
     Num(600000), Num(1300000), Num(13000000)}

AdsInputs == {Undefined, Null, Num(0), Num(1), Num(2500)}

RecoilDamageInputs == {Null, Num(250), Num(750), Num(1000)}

RecoilRpmInputs == {Num(0), Num(400), Num(9000)}

\* precision and control: absent, unknown, unparsable, and numbers inside
\* and outside 0..100
AccuracyInputs ==
    {Undefined, Null, Str(<<"a","b","c">>), Num(-100), Num(0), Num(100),
     Num(500), Num(950), Num(1000), Num(1500)}

RangeInputs == {"10M", "20M", "35M", "70M", "100M"}

SMG == <<"S","M","G">>

ImmuneSpellings ==
    {<<"S","n","i","p","e","r"," ","R","i","f","l","e">>,
     <<"s","n","i","p","e","r"," ","r","i","f","l","e">>,
     <<"S","h","o","t","g","u","n">>,
     SHOTGUN}

WeaponTypeInputs ==
    {Undefined, Str(<<>>), Str(SMG)} \cup {Str(t) : t \in ImmuneSpellings}

M433 == <<"M","4","3","3">>

\* weapon records as the normalizer stores them: trimmed strings, and
\* numeric fields that are null or a number
StoredNumbers == {Null, Num(0), Num(250)}

CompletenessInputs ==
    {[f \in {"Weapon"} |-> Str(name)] @@ [f \in {"Weapon Type"} |-> Str(type)] @@
     [f \in {"DPS"} |-> Null] @@ nums :
        name \in {<<>>, M433}, type \in {<<>>, SMG},
        nums \in [RangeSet \cup {"RPM", "ADS"} -> StoredNumbers]}

DropoffDamages == {Null, Num(0), Num(250), Num(330), Num(500), Inf(1)}

DropoffInputs ==
    {[f \in {"Weapon"} |-> Str(M433)] @@ [f \in {"Weapon Type"} |-> Str(SMG)] @@
     [f \in {"10M"} |-> near] @@ [f \in {"70M"} |-> far] @@
     [f \in {"20M", "35M", "50M", "RPM", "DPS", "ADS"} |-> Num(250)] :
        near \in DropoffDamages, far \in DropoffDamages}

DropoffRanges == {"10M", "70M", "100M"}

\* raw cells of a numeric column
RawCells ==
    {Undefined, Null, Str(<<>>), Str(<<" ">>), Str(<<"0">>), Str(<<"2","5">>),
     Str(<<"3","3">>), Str(<<"3","3",".","5">>), Str(<<" ","4","0"," ">>),
     Str(<<"-","5">>), Str(<<"2","5","a","b","c">>), Str(<<"a","b","c">>),
     Str(<<"N","/","A">>), Str(InfinityLit), Str(<<"3","3",".">>),
     Str(<<".","5">>)}

-----------------------------------------------------------------------------
(* The calculator calls: each action is one call of a pure function, made  *)
(* when no call is being looked at, its arguments and its return value     *)
(* recorded in call                                                        *)

CallCalculateTTK ==
    /\ call.fn = "none"
    /\ \E damage \in DamageInputs, rpm \in RpmInputs, adsTime \in AdsInputs :
          call' = [fn |-> "calculateTTK", damage |-> damage, rpm |-> rpm,
                   adsTime |-> adsTime,
                   ret |-> calculateTTK(damage, rpm, Default(adsTime, Num(0)))]
    /\ UNCHANGED <<weaponsData, filteredData, loads>>
    /\ UNCHANGED pageVars

CallCalculateRecoilAdjustedTTK ==
    /\ call.fn = "none"
    /\ \E damage \in RecoilDamageInputs, rpm \in RecoilRpmInputs,
          precision \in AccuracyInputs, control \in AccuracyInputs,
          range \in RangeInputs, weaponType \in WeaponTypeInputs :
          call' = [fn |-> "calculateRecoilAdjustedTTK", damage |-> damage,
                   rpm |-> rpm, precision |-> precision, control |-> control,
                   range |-> range, weaponType |-> weaponType,
                   ret |-> calculateRecoilAdjustedTTK(damage, rpm, precision,
                                                      control, range, weaponType),
                   \* the probability the call computes on its non-immune path
                   p |-> HitProbability(Default(precision, Num(1000)),
                                        Default(control, Num(1000)), range)]
    /\ UNCHANGED <<weaponsData, filteredData, loads>>
    /\ UNCHANGED pageVars

CallGetDamageDropoff ==
    /\ call.fn = "none"
    /\ \E weapon \in DropoffInputs, rangeStart \in DropoffRanges,
          rangeEnd \in DropoffRanges :
          call' = [fn |-> "getDamageDropoff", weapon |-> weapon,
                   rangeStart |-> rangeStart, rangeEnd |-> rangeEnd,
                   ret |-> getDamageDropoff(weapon, rangeStart, rangeEnd)]
    /\ UNCHANGED <<weaponsData, filteredData, loads>>
    /\ UNCHANGED pageVars

CallIsWeaponDataComplete ==
    /\ call.fn = "none"
    /\ \E weapon \in CompletenessInputs :
          call' = [fn |-> "isWeaponDataComplete", weapon |-> weapon,
                   ret |-> isWeaponDataComplete(weapon)]
    /\ UNCHANGED <<weaponsData, filteredData, loads>>
    /\ UNCHANGED pageVars

CallParseNumeric ==
    /\ call.fn = "none"
    /\ \E value \in RawCells :
          call' = [fn |-> "parseNumeric", value |-> value,
                   ret |-> parseNumeric(value)]
    /\ UNCHANGED <<weaponsData, filteredData, loads>>
    /\ UNCHANGED pageVars

\* the caller takes the return value: the next call starts afresh
Return ==
    /\ call.fn # "none"
    /\ call' = [fn |-> "none"]
    /\ UNCHANGED <<weaponsData, filteredData, loads>>
    /\ UNCHANGED pageVars

TTKNext == Return \/ CallCalculateTTK

RecoilNext == Return \/ CallCalculateRecoilAdjustedTTK

-----------------------------------------------------------------------------
(* The data set served to loadWeaponData: rows as Papa Parse hands them    *)
(* over with header: true and dynamicTyping: false, every cell a string    *)

Columns ==
    <<"Weapon Type", "Weapon", "10M", "20M", "35M", "50M", "70M",
      "RPM", "DPS", "ADS", "Precision", "Control">>

\* a row from its cells in column order
Row(cells) == [c \in {Columns[i] : i \in 1..Len(Columns)} |->
                 Str(cells[CHOOSE i \in 1..Len(Columns) : Columns[i] = c])]

\* the sample row of the data format documentation
RowM433 ==
    Row(<< <<"A","S","S","A","U","L","T"," ","R","I","F","L","E">>, M433,
           <<"2","5">>, <<"2","5">>, <<"2","0">>, <<"2","0">>, <<"2","0">>,
           <<"8","3","0">>, <<"3","4","6">>, <<"2","5","0">>,
           <<"2","0">>, <<"4","1">> >>)

\* a padded name, damage 33 at two ranges, cells left empty
RowPW7 ==
    Row(<< SMG, <<" ","P","W","7"," ">>,
           <<"3","3">>, <<"3","3">>, <<"2","5">>, <<>>, <<>>,
           <<"9","0","0">>, <<>>, <<"2","0","0">>, <<"3","0">>, <<"4","0">> >>)

\* a one-shot sniper rifle
RowM2010 ==
    Row(<< <<"S","n","i","p","e","r"," ","R","i","f","l","e">>,
           <<"M","2","0","1","0">>,
           <<"1","0","0">>, <<"1","0","0">>, <<"1","0","0">>, <<"7","5">>, <<"7","5">>,
           <<"4","0">>, <<"6","7">>, <<"4","0","0">>, <<"9","0">>, <<"9","0">> >>)

\* a shotgun that deals no damage at long range
RowM87 ==
    Row(<< SHOTGUN, <<"M","8","7">>,
           <<"1","0","0">>, <<"5","0">>, <<"0">>, <<"0">>, <<"0">>,
           <<"8","0">>, <<"1","3","3">>, <<"3","0","0">>, <<"5","0">>, <<"5","0">> >>)

\* a row without a name
RowBlank ==
    Row(<< SMG, <<" ">>,
           <<"2","5">>, <<"2","5">>, <<"2","0">>, <<"2","0">>, <<"2","0">>,
           <<"8","3","0">>, <<"3","4","6">>, <<"2","5","0">>,
           <<"2","0">>, <<"4","1">> >>)

\* cells that are no clean number, and a name with a comma and a quote
RowDirty ==
    Row(<< <<"L","M","G">>, <<"L",",","\"","1">>,
           <<"2","5","a","b","c">>, InfinityLit, <<"-","5">>, <<"a","b","c">>,
           <<"N","/","A">>,
           <<"0">>, <<" ">>, <<"3","3">>, <<"1","5","0">>, <<"x">> >>)

RawRows == {RowM433, RowPW7, RowM2010, RowM87, RowBlank, RowDirty}

\* the most rows a served data set holds
MaxRows == 2

\* the most calls of loadWeaponData in flight at once
MaxLoads == 2

RECURSIVE SeqsUpTo(_, _)
SeqsUpTo(S, n) ==
    IF n = 0 THEN {<<>>}
    ELSE LET shorter == SeqsUpTo(S, n - 1)
         IN  shorter \cup {Append(q, x) : q \in shorter, x \in S}

\* the rows of the data sets the server hands out
ServedRows == {RowM433, RowPW7, RowBlank, RowDirty}

RawDataSets == SeqsUpTo(ServedRows, MaxRows)

\* what the complete callback makes of each data set: processWeaponData is
\* a function of the rows alone, so it is evaluated once per data set
Processed == [rawData \in RawDataSets |-> processWeaponData(rawData)]

\* the sequence s without its i-th element
RemoveAt(s, i) == SubSeq(s, 1, i - 1) \o SubSeq(s, i + 1, Len(s))

-----------------------------------------------------------------------------
(* data.js: loadWeaponData, one action per step between two awaits.  Each  *)
(* call in flight is an element of loads: "fetch" while it awaits          *)
(* fetch('data/ttk.csv'), "text" while it awaits response.text().          *)

\* a caller calls loadWeaponData(): the fetch is issued
LoadWeaponData ==
    /\ Len(loads) < MaxLoads
    /\ loads' = Append(loads, "fetch")
    /\ UNCHANGED <<weaponsData, filteredData, call>>
    /\ UNCHANGED pageVars

\* the fetch resolves with an OK response: the body is asked for
FetchOk ==
    /\ \E i \in 1..Len(loads) :
          /\ loads[i] = "fetch"
          /\ loads' = [loads EXCEPT ![i] = "text"]
    /\ UNCHANGED <<weaponsData, filteredData, call>>
    /\ UNCHANGED pageVars

\* the promise of a call rejects: the caller's await throws
Rejected(failure) ==
    [fn |-> "loadWeaponData", settled |-> "rejected", failure |-> failure]

(* the promise of a call resolves with the normalized rows of rawData;     *)
(* failure is "errors" when the parser reported errors in results.errors   *)
Resolved(rawData, failure) ==
    [fn |-> "loadWeaponData", settled |-> "resolved", failure |-> failure,
     data |-> rawData]

\* the fetch rejects, the response is not OK, or reading the body rejects:
\* the catch block rethrows, the call ends without touching the collections
LoadFails ==
    /\ \E i \in 1..Len(loads) :
          /\ loads' = RemoveAt(loads, i)
          /\ \E failure \in IF loads[i] = "fetch" THEN {"fetch", "status"}
                            ELSE {"text"} :
                call' = Rejected(failure)
    /\ UNCHANGED <<weaponsData, filteredData>>
    /\ UNCHANGED pageVars

\* mutant: a completing load adds its rows to the collection
ParseComplete_merge ==
    /\ \E i \in 1..Len(loads), rawData \in RawDataSets,
          failure \in {"none", "errors"} :
          /\ loads[i] = "text"
          /\ weaponsData' = weaponsData \o Processed[rawData]
          /\ filteredData' = Processed[rawData]
          /\ loads' = RemoveAt(loads, i)
          /\ call' = Resolved(rawData, failure)
    /\ UNCHANGED pageVars

(* the body arrives: Papa.parse runs to its complete callback, which warns *)
(* about the errors the parser reported, normalizes the rows it was given, *)
(* replaces both collections and resolves                                  *)
ParseComplete ==
    /\ \E i \in 1..Len(loads), rawData \in RawDataSets,
          failure \in {"none", "errors"} :
          /\ loads[i] = "text"
          /\ LET processedData == Processed[rawData]
             IN  /\ weaponsData' = processedData
                 /\ filteredData' = processedData
          /\ loads' = RemoveAt(loads, i)
          /\ call' = Resolved(rawData, failure)
    /\ UNCHANGED pageVars

\* Papa.parse calls the error callback: the promise rejects
ParseError ==
    /\ \E i \in 1..Len(loads) :
          /\ loads[i] = "text"
          /\ loads' = RemoveAt(loads, i)
    /\ call' = Rejected("parse")
    /\ UNCHANGED <<weaponsData, filteredData>>
    /\ UNCHANGED pageVars

-----------------------------------------------------------------------------
(* processWeaponData called on a parsed data set.  Besides the served rows *)
(* the inputs hold rows Papa Parse leaves short (a line with fewer cells   *)
(* than the header has no key for the missing columns).                    *)

\* a short line: type, name and the first damage only
RowShort ==
    [c \in {"Weapon Type", "Weapon", "10M"} |->
        Str(CASE c = "Weapon Type" -> <<"D","M","R">>
              [] c = "Weapon" -> <<"S","V","K">>
              [] c = "10M" -> <<"5","0">>)]

\* a line that holds a name only
RowNameOnly == [c \in {"Weapon"} |-> Str(<<"M","4">>)]

\* a full row whose weapon type is blank
RowUntyped ==
    Row(<< <<" "," ">>, <<"M","P","5">>,
           <<"2","5">>, <<"2","5">>, <<"2","0">>, <<"2","0">>, <<"2","0">>,
           <<"8","0","0">>, <<"3","3","3">>, <<"2","0","0">>,
           <<"2","0">>, <<"4","1">> >>)

IngestInputs ==
    SeqsUpTo(RawRows \cup {RowShort, RowNameOnly, RowUntyped}, MaxRows)

CallProcessWeaponData ==
    /\ call.fn = "none"
    /\ \E rawData \in IngestInputs :
          call' = [fn |-> "processWeaponData", rawData |-> rawData,
                   ret |-> processWeaponData(rawData)]
    /\ UNCHANGED <<weaponsData, filteredData, loads>>
    /\ UNCHANGED pageVars

RecordNext ==
    \/ Return
    \/ CallGetDamageDropoff
    \/ CallIsWeaponDataComplete
    \/ CallParseNumeric
    \/ CallProcessWeaponData

-----------------------------------------------------------------------------
(* utils.js: getWeaponStatistics *)

\* the decimal digits of a natural number, as String(n) prints them
RECURSIVE ToDigits(_)
ToDigits(n) ==
    IF n < 10 THEN <<Digits[n + 1]>>
    ELSE ToDigits(n \div 10) \o <<Digits[(n % 10) + 1]>>

\* [...new Set(values)] : the distinct values in order of first occurrence
RECURSIVE Distinct(_)
Distinct(values) ==
    IF values = <<>> THEN <<>>
    ELSE LET last == values[Len(values)]
         IN  CHOOSE set \in
                {IF \E i \in 1..Len(front) : front[i] = last THEN front
                 ELSE Append(front, last) :
                    front \in {Distinct(SubSeq(values, 1, Len(values) - 1))}} : TRUE

\* mutant: the coverage taken over the number of weapon types
getWeaponStatistics_perType(weapons) ==
    LET total == Len(weapons)
        complete == Len(SelectSeq(weapons, isWeaponDataComplete))
        types == Distinct([i \in 1..Len(weapons) |-> Get(weapons[i], "Weapon Type")])
        coverage == IF total > 0 THEN Round(complete * 100, Len(types)) ELSE 0
    IN  [total |-> total, complete |-> complete, incomplete |-> total - complete,
         types |-> Len(types), typesList |-> types,
         coverage |-> Str(ToDigits(coverage) \o <<"%">>)]

\* getWeaponStatistics(weapons); total, complete and types are counts
getWeaponStatistics(weapons) ==
    LET total == Len(weapons)
        complete == Len(SelectSeq(weapons, isWeaponDataComplete))
        types == Distinct([i \in 1..Len(weapons) |-> Get(weapons[i], "Weapon Type")])
        coverage == IF total > 0 THEN Round(complete * 100, total) ELSE 0
    IN  [total |-> total, complete |-> complete, incomplete |-> total - complete,
         types |-> Len(types), typesList |-> types,
         coverage |-> Str(ToDigits(coverage) \o <<"%">>)]

\* getWeaponsByType(types): a type name or an array of type names
getWeaponsByType(types) ==
    IF \/ Falsy(types)
       \/ types = Str(ALL)
       \/ (types.k = "arr" /\ ArrayIncludes(types.a, ALL))
    THEN weaponsData
    ELSE LET typeArray == IF types.k = "arr" THEN types.a ELSE <<types.s>>
             ofType(w) == ArrayIncludes(typeArray, w["Weapon Type"].s)
         IN  SelectSeq(weaponsData, ofType)

\* a + b on two numbers
NumPlus(a, b) ==
    CASE a.k = "NaN" \/ b.k = "NaN" -> NaN
      [] a.k = "inf" /\ b.k = "inf" -> IF a.sgn = b.sgn THEN a ELSE NaN
      [] a.k = "inf" -> a
      [] b.k = "inf" -> b
      [] OTHER -> Num(a.v + b.v)

\* values.reduce((sum, v) => sum + v, 0) on numbers
RECURSIVE NumSum(_)
NumSum(values) ==
    IF values = <<>> THEN Num(0)
    ELSE NumPlus(NumSum(SubSeq(values, 1, Len(values) - 1)), values[Len(values)])

(* sum / n for a number and a count n >= 0, as a fraction of tenths: a     *)
(* division by 0 gives NaN for 0 / 0 and an infinity otherwise             *)
NumDiv(sum, n) ==
    CASE sum.k \in {"NaN", "inf"} -> sum
      [] n = 0 -> IF sum.v = 0 THEN NaN ELSE Inf(IF sum.v > 0 THEN 1 ELSE -1)
      [] OTHER -> RatNorm(sum.v, n)

\* the smaller of two numbers, as Math.min folds its arguments
Lesser(a, b) ==
    CASE a.k = "NaN" \/ b.k = "NaN" -> NaN
      [] NumLess(b, a) -> b
      [] OTHER -> a

\* the larger of two numbers, as Math.max folds its arguments
Greater(a, b) ==
    CASE a.k = "NaN" \/ b.k = "NaN" -> NaN
      [] NumLess(a, b) -> b
      [] OTHER -> a

\* Math.min(...values): Infinity without arguments
RECURSIVE MinOf(_)
MinOf(values) ==
    IF values = <<>> THEN Inf(1)
    ELSE Lesser(MinOf(SubSeq(values, 1, Len(values) - 1)), values[Len(values)])

\* Math.max(...values): -Infinity without arguments
RECURSIVE MaxOf(_)
MaxOf(values) ==
    IF values = <<>> THEN Inf(-1)
    ELSE Greater(MaxOf(SubSeq(values, 1, Len(values) - 1)), values[Len(values)])

\* weapons.map(w => w[field]).filter(v => v !== null)
NotNullOf(weapons, field) ==
    LET notNull(v) == v # Null
    IN  SelectSeq([i \in 1..Len(weapons) |-> Get(weapons[i], field)], notNull)

\* the rpm block of the statistics of a weapon type
RpmStats(weapons) ==
    LET truthy(w) == ~Falsy(Get(w, "RPM"))
    IN  [min |-> MinOf(NotNullOf(weapons, "RPM")),
         max |-> MaxOf(NotNullOf(weapons, "RPM")),
         avg |-> NumDiv(NumSum([i \in 1..Len(weapons) |->
                                   OrElse(Get(weapons[i], "RPM"), Num(0))]),
                        Len(SelectSeq(weapons, truthy)))]

\* the block of one range, from the damages that are not null
RangeStats(damages) ==
    [minDamage |-> MinOf(damages), maxDamage |-> MaxOf(damages),
     avgDamage |-> NumDiv(NumSum(damages), Len(damages))]

(* getWeaponTypeStats(weaponType): null for a type without records; ranges *)
(* holds a block for each range at which some damage is not null           *)
getWeaponTypeStats(weaponType) ==
    CHOOSE stats \in
        {IF Len(weapons) = 0 THEN Null
         ELSE [k |-> "obj",
               count |-> Len(weapons),
               complete |-> Len(SelectSeq(weapons, isWeaponDataComplete)),
               rpm |-> RpmStats(weapons),
               ranges |-> [range \in {r \in RangeSet :
                                        Len(NotNullOf(weapons, r)) > 0} |->
                              RangeStats(NotNullOf(weapons, range))]] :
            weapons \in {getWeaponsByType(weaponType)}} : TRUE

-----------------------------------------------------------------------------
(* utils.js: exportToCSV.  A CSV text is a string, a sequence of           *)
(* characters like every other string of the model.                        *)

RangeChars(range) ==
    CASE range = "10M" -> <<"1","0","M">>
      [] range = "20M" -> <<"2","0","M">>
      [] range = "35M" -> <<"3","5","M">>
      [] range = "50M" -> <<"5","0","M">>
      [] range = "70M" -> <<"7","0","M">>

\* the characters of a key of a weapon object
KeyChars(key) ==
    CASE key = "Weapon Type" -> <<"W","e","a","p","o","n"," ","T","y","p","e">>
      [] key = "Weapon" -> <<"W","e","a","p","o","n">>
      [] key \in RangeSet -> RangeChars(key)
      [] key = "RPM" -> <<"R","P","M">>
      [] key = "DPS" -> <<"D","P","S">>
      [] key = "ADS" -> <<"A","D","S">>
      [] key = "Precision" -> <<"P","r","e","c","i","s","i","o","n">>
      [] key = "Control" -> <<"C","o","n","t","r","o","l">>
      [] key \in TTKKeys -> <<"T","T","K","_">> \o RangeChars(RangeOfKey(key))
      [] key \in STKKeys -> <<"S","T","K","_">> \o RangeChars(RangeOfKey(key))
      [] key = "isComplete" -> <<"i","s","C","o","m","p","l","e","t","e">>
      [] key = "averageDamage" ->
            <<"a","v","e","r","a","g","e","D","a","m","a","g","e">>

(* The order in which processWeaponData adds the keys of a weapon object,  *)
(* which is the order Object.keys lists them in (none is an array index)   *)
KeyOrder ==
    <<"Weapon Type", "Weapon">> \o RANGES \o <<"RPM", "DPS", "ADS">>
    \o [i \in 1..Len(RANGES) |-> TTKKey(RANGES[i])]
    \o [i \in 1..Len(RANGES) |-> STKKey(RANGES[i])]
    \o <<"isComplete", "averageDamage">>

\* Object.keys(weapon)
ObjectKeys(weapon) ==
    LET own(key) == key \in DOMAIN weapon
    IN  SelectSeq(KeyOrder, own)

\* the most fractional digits the model prints of a number
MaxFractionDigits == 3

\* the leading digits of the fraction n / d, 0 <= n < d
RECURSIVE FractionDigits(_, _, _)
FractionDigits(n, d, count) ==
    IF n = 0 \/ count = 0 THEN <<>>
    ELSE <<Digits[((10 * n) \div d) + 1]>> \o FractionDigits((10 * n) % d, d, count - 1)

(* String(x) for the finite number n / d: sign, integer digits and, when   *)
(* there is a fraction, a point and its digits.  A double prints up to 17  *)
(* significant digits; the model prints MaxFractionDigits of the fraction. *)
DecimalText(n, d) ==
    (IF n < 0 THEN <<"-">> ELSE <<>>)
    \o ToDigits(Abs(n) \div d)
    \o (IF Abs(n) % d = 0 THEN <<>>
        ELSE <<".">> \o FractionDigits(Abs(n) % d, d, MaxFractionDigits))

(* The text Array.prototype.join makes of an element: null and undefined   *)
(* are the empty string, anything else is String(value).  Numbers are held *)
(* in tenths.                                                              *)
ToText(value) ==
    CASE value.k = "str" -> value.s
      [] value.k = "num" -> DecimalText(value.v, 10)
      [] value.k = "rat" -> DecimalText(value.n, 10 * value.d)
      [] value.k = "inf" -> (IF value.sgn < 0 THEN <<"-">> ELSE <<>>) \o InfinityLit
      [] value.k = "NaN" -> <<"N","a","N">>
      [] OTHER -> <<>>

\* value.replace(/"/g, '""')
RECURSIVE DoubleQuotes(_)
DoubleQuotes(s) ==
    IF s = <<>> THEN <<>>
    ELSE (IF Head(s) = "\"" THEN <<"\"", "\"">> ELSE <<Head(s)>>) \o DoubleQuotes(Tail(s))

\* the callback of headers.map: the cell of one weapon under one header
CsvValue(weapon, header) ==
    IF header = "isComplete"
    THEN IF weapon[header] THEN <<"t","r","u","e">> ELSE <<"f","a","l","s","e">>
    ELSE IF /\ Get(weapon, header).k = "str"
            /\ \/ includes(Get(weapon, header).s, <<",">>)
               \/ includes(Get(weapon, header).s, <<"\"">>)
    THEN <<"\"">> \o DoubleQuotes(Get(weapon, header).s) \o <<"\"">>
    ELSE ToText(Get(weapon, header))

\* texts.join(separator)
RECURSIVE Join(_, _)
Join(texts, separator) ==
    IF texts = <<>> THEN <<>>
    ELSE IF Len(texts) = 1 THEN texts[1]
    ELSE texts[1] \o separator \o Join(Tail(texts), separator)

\* the line of one weapon
CsvRow(weapon, headers) ==
    Join([j \in 1..Len(headers) |-> CsvValue(weapon, headers[j])], <<",">>)

\* exportToCSV(weapons): the header line, then a line for each weapon
exportToCSV(weapons) ==
    IF Len(weapons) = 0 THEN <<>>
    ELSE CHOOSE csv \in
            {Join(<<Join([j \in 1..Len(headers) |-> KeyChars(headers[j])], <<",">>)>>
                  \o [i \in 1..Len(weapons) |-> CsvRow(weapons[i], headers)],
                  <<"\n">>) :
                headers \in {ObjectKeys(weapons[1])}} : TRUE

-----------------------------------------------------------------------------
(* data.js: Papa.parse(csvText, {header: true, skipEmptyLines: true}) as   *)
(* loadWeaponData calls it.  A comma or a line break separates unless it   *)
(* lies inside a quoted field, that is after an odd number of quotes: this *)
(* is how the parser reads a text in which every quote belongs to a quoted *)
(* field, and exportToCSV writes no other quote.                           *)

\* text cut at the separators that lie outside quoted fields
SplitOutsideQuotes(text, separator) ==
    CHOOSE parts \in
        {[k \in 1..(Cardinality(cuts) + 1) |->
            SubSeq(text,
                   IF k = 1 THEN 1
                   ELSE 1 + CHOOSE i \in cuts :
                                Cardinality({j \in cuts : j <= i}) = k - 1,
                   IF k = Cardinality(cuts) + 1 THEN Len(text)
                   ELSE (CHOOSE i \in cuts :
                            Cardinality({j \in cuts : j <= i}) = k) - 1)] :
            cuts \in {{i \in 1..Len(text) :
                         /\ text[i] = separator
                         /\ Cardinality({j \in 1..(i - 1) : text[j] = "\""}) % 2 = 0}}} :
        TRUE

\* the text of a quoted field: a doubled quote stands for one quote
RECURSIVE Undouble(_)
Undouble(s) ==
    IF s = <<>> THEN <<>>
    ELSE IF Len(s) >= 2 /\ s[1] = "\"" /\ s[2] = "\""
    THEN <<"\"">> \o Undouble(SubSeq(s, 3, Len(s)))
    ELSE <<Head(s)>> \o Undouble(Tail(s))

\* the value of a field: a quoted field loses its quotes
FieldValue(field) ==
    IF Len(field) >= 2 /\ field[1] = "\"" /\ field[Len(field)] = "\""
    THEN Undouble(SubSeq(field, 2, Len(field) - 1))
    ELSE field

\* the key a header cell names ("" for a text that is no key of the model)
KeyOf(chars) ==
    IF \E key \in RangeSet \cup TTKKeys \cup STKKeys
                  \cup {"Weapon Type", "Weapon", "RPM", "DPS", "ADS", "Precision",
                        "Control", "isComplete", "averageDamage"} :
            KeyChars(key) = chars
    THEN CHOOSE key \in RangeSet \cup TTKKeys \cup STKKeys
                  \cup {"Weapon Type", "Weapon", "RPM", "DPS", "ADS", "Precision",
                        "Control", "isComplete", "averageDamage"} :
            KeyChars(key) = chars
    ELSE ""

(* header: true: a line becomes an object with the header cells as keys; a *)
(* line with fewer fields than the header has no key for the missing ones, *)
(* and fields beyond the header are not stored under a header key          *)
RowObject(header, fields) ==
    [key \in {header[k] : k \in 1..(IF Len(fields) < Len(header)
                                    THEN Len(fields) ELSE Len(header))} |->
        Str(FieldValue(fields[CHOOSE k \in 1..Len(header) : header[k] = key]))]

\* results.data: the first line names the columns, empty lines are skipped
PapaParse(csvText) ==
    CHOOSE data \in
        {LET notEmpty(line) == line # <<>>
             header == [k \in 1..Len(SplitOutsideQuotes(lines[1], ",")) |->
                          KeyOf(FieldValue(SplitOutsideQuotes(lines[1], ",")[k]))]
             rest == SelectSeq(Tail(lines), notEmpty)
         IN  [i \in 1..Len(rest) |->
                 RowObject(header, SplitOutsideQuotes(rest[i], ","))] :
            lines \in {SplitOutsideQuotes(csvText, "\n")}} : TRUE

-----------------------------------------------------------------------------
(* main.js: the state of the page.  A range and a chart type are labels    *)
(* like the range labels of the calculator.                                *)

\* the filter state the page starts with and a reset restores
DefaultFilters ==
    [types |-> Arr(<<ALL>>), range |-> "all", chartType |-> "damage",
     search |-> Str(<<>>), includeADS |-> Bool(FALSE)]

\* the page before any event: no debounce timer has been set
InitPage ==
    /\ currentFilters = DefaultFilters
    /\ isDarkTheme = TRUE
    /\ timeout = Undefined
    /\ timers = {}
    /\ now = 0

-----------------------------------------------------------------------------
(* The query engine at work on a loaded collection *)

\* the rows of the collections the queries run on
QueryRows == {RowM433, RowPW7, RowM87, RowDirty, RowShort}

\* the collections a completed load can leave behind
QueryCollections ==
    {processWeaponData(rawData) : rawData \in SeqsUpTo(QueryRows, MaxRows)}

TypesInputs ==
    {Undefined, Arr(<<SMG>>), Arr(<<SMG, SHOTGUN>>), Arr(<<ALL, SMG>>)}

SearchInputs == {Undefined, Str(<<" ">>), Str(<<"S">>), Str(<<"m","8">>)}

CompleteOnlyInputs == {Bool(FALSE), Bool(TRUE)}

MinRPMInputs == {Undefined, Num(0), Num(8000)}

MaxRPMInputs == {Undefined, Num(0), Num(8500)}

\* a filter object
Filters(types, search, completeOnly, minRPM, maxRPM) ==
    [o \in {"types", "search", "completeOnly", "minRPM", "maxRPM"} |->
        CASE o = "types" -> types
          [] o = "search" -> search
          [] o = "completeOnly" -> completeOnly
          [] o = "minRPM" -> minRPM
          [] o = "maxRPM" -> maxRPM]

FilterInputs ==
    {Filters(t, s, c, lo, hi) :
        t \in TypesInputs, s \in SearchInputs, c \in CompleteOnlyInputs,
        lo \in MinRPMInputs, hi \in MaxRPMInputs}

MetricInputs == {"ttk", "damage", "rpm", "dps"}

QueryRangeInputs == {"10M", "35M", "50M"}

TopNInputs == {0, 1, 5}

\* applyFilters(filters): filteredData is replaced by the filtered view
ApplyFilters ==
    /\ call.fn = "none"
    /\ \E filters \in FilterInputs :
          LET data == applyFilters(filters)
          IN  /\ filteredData' = data
              /\ call' = [fn |-> "applyFilters", filters |-> filters, ret |-> data]
    /\ UNCHANGED <<weaponsData, loads>>
    /\ UNCHANGED pageVars

\* resetFilters()
ResetFilters ==
    /\ call.fn = "none"
    /\ filteredData' = weaponsData
    /\ call' = [fn |-> "resetFilters", ret |-> weaponsData]
    /\ UNCHANGED <<weaponsData, loads>>
    /\ UNCHANGED pageVars

CallGetTopWeapons ==
    /\ call.fn = "none"
    /\ \E n \in TopNInputs, metric \in MetricInputs, range \in QueryRangeInputs :
          call' = [fn |-> "getTopWeapons", n |-> n, metric |-> metric,
                   range |-> range, ret |-> getTopWeapons(n, metric, range)]
    /\ UNCHANGED <<weaponsData, filteredData, loads>>
    /\ UNCHANGED pageVars

CallGetWeaponsForRange ==
    /\ call.fn = "none"
    /\ \E range \in QueryRangeInputs, limit \in TopNInputs :
          call' = [fn |-> "getWeaponsForRange", range |-> range, limit |-> limit,
                   ret |-> getWeaponsForRange(range, limit)]
    /\ UNCHANGED <<weaponsData, filteredData, loads>>
    /\ UNCHANGED pageVars

\* the statistics of the current view (main.js, updateStatistics)
CallGetWeaponStatistics ==
    /\ call.fn = "none"
    /\ call' = [fn |-> "getWeaponStatistics", weapons |-> filteredData,
                ret |-> getWeaponStatistics(filteredData)]
    /\ UNCHANGED <<weaponsData, filteredData, loads>>
    /\ UNCHANGED pageVars

\* the weapon types asked for: present, absent, and every type
TypeNameInputs ==
    {Str(SMG), Str(SHOTGUN), Str(<<"D","M","R">>), Str(<<"L","M","G">>),
     Str(<<"s","m","g">>), Str(ALL)}

\* getWeaponTypeStats(weaponType) on the loaded collection
CallGetWeaponTypeStats ==
    /\ call.fn = "none"
    /\ \E weaponType \in TypeNameInputs :
          call' = [fn |-> "getWeaponTypeStats", weaponType |-> weaponType,
                   ret |-> getWeaponTypeStats(weaponType)]
    /\ UNCHANGED <<weaponsData, filteredData, loads>>
    /\ UNCHANGED pageVars

\* the state a completed load leaves behind
InitQuery ==
    /\ weaponsData \in QueryCollections
    /\ filteredData = weaponsData
    /\ loads = <<>>
    /\ call = [fn |-> "none"]
    /\ InitPage

QueryNext ==
    \/ Return
    \/ ApplyFilters
    \/ ResetFilters
    \/ CallGetTopWeapons
    \/ CallGetWeaponsForRange
    \/ CallGetWeaponStatistics
    \/ CallGetWeaponTypeStats

-----------------------------------------------------------------------------
(* The export of the current view (main.js, handleExportCSV) *)

\* a name that runs over two lines, from a quoted field of the data set
RowMultiline ==
    Row(<< <<"D","M","R">>, <<"S","V","K","\n","M","2">>,
           <<"5","0">>, <<"5","0">>, <<"4","0">>, <<"4","0">>, <<"3","3",".","5">>,
           <<"3","0","0">>, <<"2","5","0">>, <<"3","5","0">>, <<"6","0">>, <<"5","5">> >>)

ExportRows == {RowM433, RowPW7, RowDirty, RowMultiline}

ExportCollections ==
    {processWeaponData(rawData) : rawData \in SeqsUpTo(ExportRows, MaxRows)}

(* handleExportCSV(): the current view is exported and handed to           *)
(* downloadCSV, unless it is empty                                         *)
HandleExportCSV ==
    /\ call.fn = "none"
    /\ call' = IF Len(filteredData) = 0
               THEN [fn |-> "alert"]
               ELSE [fn |-> "downloadCSV", weapons |-> filteredData,
                     csvContent |-> Str(exportToCSV(filteredData))]
    /\ UNCHANGED <<weaponsData, filteredData, loads>>
    /\ UNCHANGED pageVars

InitExport ==
    /\ weaponsData \in ExportCollections
    /\ filteredData = weaponsData
    /\ loads = <<>>
    /\ call = [fn |-> "none"]
    /\ InitPage

ExportNext ==
    \/ Return
    \/ ApplyFilters
    \/ ResetFilters
    \/ HandleExportCSV

-----------------------------------------------------------------------------
(* charts.js: createTTKChart, the TTK bars of the weapons at one range *)

RECOIL == <<"r","e","c","o","i","l">>

ADS == <<"a","d","s">>

HIP == <<"h","i","p">>

\* the method the chart computes with, read from the filter state
ChartMethod(filters) ==
    IF ~Falsy(Get(filters, "method")) THEN Get(filters, "method")
    ELSE IF ~Falsy(Get(filters, "includeADS")) THEN Str(ADS)
    ELSE Str(HIP)

\* the TTK the chart shows for one weapon
ChartedTTK(w, range, method) ==
    IF method = Str(RECOIL)
    THEN calculateRecoilAdjustedTTK(Get(w, range), Get(w, "RPM"), Get(w, "Precision"),
                                    Get(w, "Control"), range, Undefined)
    ELSE calculateTTK(Get(w, range), Get(w, "RPM"),
                      IF method = Str(ADS) THEN Get(w, "ADS") ELSE Num(0))

\* the sort callback is negative: a is placed before b
ChartedBefore(a, b) ==
    NumMinusSign(OrElse(a["calculatedTTK"], Inf(1)),
                 OrElse(b["calculatedTTK"], Inf(1))) = "neg"

\* entry placed behind the entries it does not sort before
ChartInsert(sorted, entry) ==
    CHOOSE inserted \in
        {LET at == IF later = {} THEN Len(sorted) + 1
                   ELSE CHOOSE i \in later : \A j \in later : i <= j
         IN  SubSeq(sorted, 1, at - 1) \o <<entry>> \o SubSeq(sorted, at, Len(sorted)) :
            later \in {{i \in 1..Len(sorted) : ChartedBefore(entry, sorted[i])}}} : TRUE

\* weaponsWithTTK.sort(...): ascending by calculatedTTK, stable
RECURSIVE ChartSort(_)
ChartSort(entries) ==
    IF entries = <<>> THEN <<>>
    ELSE CHOOSE sorted \in
            {ChartInsert(front, entries[Len(entries)]) :
                front \in {ChartSort(SubSeq(entries, 1, Len(entries) - 1))}} : TRUE

\* Array.prototype.reverse
Reverse(s) == [i \in 1..Len(s) |-> s[Len(s) + 1 - i]]

(* createTTKChart(weapons, range): sortedWeapons, the weapons with a known *)
(* damage and fire rate, each with its calculatedTTK, in the order of the  *)
(* bars                                                                    *)
createTTKChart(weapons, range, filters) ==
    CHOOSE sortedWeapons \in
        {Reverse(ChartSort([i \in 1..Len(validWeapons) |->
            [f \in {"calculatedTTK"} |->
                ChartedTTK(validWeapons[i], range, ChartMethod(filters))]
            @@ validWeapons[i]])) :
            validWeapons \in {SelectSeq(weapons,
                LAMBDA w : Get(w, range) # Null /\ Get(w, "RPM") # Null)}} : TRUE

\* a one-shot sniper rifle and a shotgun among the charted weapons
ChartRows == {RowM433, RowPW7, RowM2010, RowM87}

ChartCollections ==
    {processWeaponData(rawData) : rawData \in SeqsUpTo(ChartRows, MaxRows)}

\* the filter states the method control leaves behind
ChartFilters ==
    {DefaultFilters, [DefaultFilters EXCEPT !.includeADS = Bool(TRUE)],
     [f \in {"method"} |-> Str(RECOIL)] @@ DefaultFilters,
     [f \in {"method"} |-> Str(ADS)] @@ DefaultFilters}

\* updateVisualization draws the TTK chart of the current view
CallCreateTTKChart ==
    /\ call.fn = "none"
    /\ \E range \in RangeSet :
          call' = [fn |-> "createTTKChart", weapons |-> filteredData,
                   range |-> range, method |-> ChartMethod(currentFilters),
                   ret |-> createTTKChart(filteredData, range, currentFilters)]
    /\ UNCHANGED <<weaponsData, filteredData, loads>>
    /\ UNCHANGED pageVars

InitChart ==
    /\ weaponsData \in ChartCollections
    /\ filteredData = weaponsData
    /\ loads = <<>>
    /\ call = [fn |-> "none"]
    /\ currentFilters \in ChartFilters
    /\ isDarkTheme = TRUE
    /\ timeout = Undefined
    /\ timers = {}
    /\ now = 0

ChartNext ==
    \/ Return
    \/ CallCreateTTKChart

-----------------------------------------------------------------------------
(* main.js: the event handlers of the page.  A handler runs to its end     *)
(* before the next event is handled; the charts, the table and the summary *)
(* cards it redraws are output and no state of the model.  call names the  *)
(* handler that ran last.                                                  *)

\* updateVisualization(): the view is filtered anew by the filter state
UpdateVisualization(filters) ==
    filteredData' = applyFilters(filters)

\* the options selected in the weapon type list
SelectedTypesInputs ==
    {<<>>, <<ALL>>, <<ALL, SMG>>, <<SMG>>, <<SMG, SHOTGUN>>}

\* handleFilterChange(event)
HandleFilterChange ==
    /\ call.fn = "none"
    /\ \E selectedTypes \in SelectedTypesInputs :
          /\ currentFilters' =
                [currentFilters EXCEPT !.types =
                    IF ArrayIncludes(selectedTypes, ALL) /\ Len(selectedTypes) > 1
                    THEN Arr(<<ALL>>)
                    ELSE IF Len(selectedTypes) = 0 THEN Arr(<<ALL>>)
                    ELSE Arr(selectedTypes)]
          /\ UpdateVisualization(currentFilters')
    /\ call' = [fn |-> "handleFilterChange"]
    /\ UNCHANGED <<weaponsData, loads, isDarkTheme, timeout, timers, now>>

\* handleRangeChange(event)
HandleRangeChange ==
    /\ call.fn = "none"
    /\ \E value \in {"all", "35M"} :
          /\ currentFilters' = [currentFilters EXCEPT !.range = value]
          /\ UpdateVisualization(currentFilters')
    /\ call' = [fn |-> "handleRangeChange"]
    /\ UNCHANGED <<weaponsData, loads, isDarkTheme, timeout, timers, now>>

\* handleChartTypeChange(event)
HandleChartTypeChange ==
    /\ call.fn = "none"
    /\ \E value \in {"damage", "ttk"} :
          /\ currentFilters' = [currentFilters EXCEPT !.chartType = value]
          /\ UpdateVisualization(currentFilters')
    /\ call' = [fn |-> "handleChartTypeChange"]
    /\ UNCHANGED <<weaponsData, loads, isDarkTheme, timeout, timers, now>>

(* handleResetFilters(): the filter state is replaced by the defaults,     *)
(* resetFilters() sets the view to the master collection, and              *)
(* updateVisualization() filters it by the new state                       *)
HandleResetFilters ==
    /\ call.fn = "none"
    /\ currentFilters' = DefaultFilters
    /\ UpdateVisualization(DefaultFilters)
    /\ call' = [fn |-> "handleResetFilters"]
    /\ UNCHANGED <<weaponsData, loads, isDarkTheme, timeout, timers, now>>

\* handleCompareAll(): draws the complete weapons, or alerts
HandleCompareAll ==
    /\ call.fn = "none"
    /\ call' = [fn |-> "handleCompareAll",
                weapons |-> SelectSeq(weaponsData, LAMBDA w : w["isComplete"])]
    /\ UNCHANGED <<weaponsData, filteredData, loads>>
    /\ UNCHANGED pageVars

\* toggleTheme()
ToggleTheme ==
    /\ call.fn = "none"
    /\ isDarkTheme' = ~isDarkTheme
    /\ UpdateVisualization(currentFilters)
    /\ call' = [fn |-> "toggleTheme"]
    /\ UNCHANGED <<weaponsData, loads, currentFilters, timeout, timers, now>>

\* mutant: the search text is stored and the view is left as it is
HandleTableSearch_stale ==
    /\ call.fn = "none"
    /\ \E value \in SearchInputs \ {Undefined} :
          currentFilters' = [currentFilters EXCEPT !.search = value]
    /\ call' = [fn |-> "handleTableSearch"]
    /\ UNCHANGED <<weaponsData, filteredData, loads, isDarkTheme, timeout, timers, now>>

\* handleTableSearch(event), run by the debounce timer of the search box
HandleTableSearch ==
    /\ call.fn = "none"
    /\ \E value \in SearchInputs \ {Undefined} :
          /\ currentFilters' = [currentFilters EXCEPT !.search = value]
          /\ filteredData' = applyFilters(currentFilters')
    /\ call' = [fn |-> "handleTableSearch"]
    /\ UNCHANGED <<weaponsData, loads, isDarkTheme, timeout, timers, now>>

\* handleFireModeChange(event)
HandleFireModeChange ==
    /\ call.fn = "none"
    /\ \E value \in {HIP, ADS, RECOIL} :
          /\ currentFilters' = [currentFilters EXCEPT !.includeADS = Bool(value = ADS)]
          /\ UpdateVisualization(currentFilters')
    /\ call' = [fn |-> "handleFireModeChange"]
    /\ UNCHANGED <<weaponsData, loads, isDarkTheme, timeout, timers, now>>

UIRows == {RowM433, RowPW7, RowM87}

\* the page after init(): the data set is loaded, the listeners are set
InitUI ==
    /\ weaponsData \in {processWeaponData(rawData) : rawData \in SeqsUpTo(UIRows, MaxRows)}
    /\ filteredData = weaponsData
    /\ loads = <<>>
    /\ call = [fn |-> "none"]
    /\ InitPage

UINext ==
    \/ Return
    \/ HandleFilterChange
    \/ HandleRangeChange
    \/ HandleChartTypeChange
    \/ HandleResetFilters
    \/ HandleCompareAll
    \/ ToggleTheme
    \/ HandleTableSearch
    \/ HandleFireModeChange
    \/ HandleExportCSV

-----------------------------------------------------------------------------
(* utils.js debounce, as main.js wraps handleTableSearch with it for the   *)
(* input events of the search box.  The clock counts ticks of 100 ms.  A   *)
(* timer set by setTimeout(later, wait) runs no sooner than wait after it  *)
(* was set; a timer that has expired runs before the clock moves on and    *)
(* before an input event that arrives at or after its expiry.              *)

\* debounce(handleTableSearch, 300): wait, in ticks
Wait == 3

MaxTime == 7
MaxCalls == 4

\* the text of the search box at an input event
DebounceInputs == {Str(<<"S">>), Str(<<"m","8">>)}

TimerId(n) == [k |-> "timer", id |-> n]

\* the id setTimeout returns next
NextTimerId == IF timeout = Undefined THEN 1 ELSE timeout.id + 1

\* clearTimeout(id)
ClearTimeout(pending, id) == {t \in pending : TimerId(t.id) # id}

\* mutant: the timer set by the previous call is left pending
ExecutedFunction_keep ==
    /\ \A t \in timers : now < t.due
    /\ now + Wait <= MaxTime
    /\ NextTimerId <= MaxCalls
    /\ \E args \in DebounceInputs :
          /\ timers' = timers \cup
                 {[id |-> NextTimerId, args |-> args, due |-> now + Wait]}
          /\ call' = [fn |-> "executedFunction", args |-> args, at |-> now]
    /\ timeout' = TimerId(NextTimerId)
    /\ UNCHANGED <<weaponsData, filteredData, loads, currentFilters, isDarkTheme, now>>

(* executedFunction(...args): an input event of the search box calls the   *)
(* wrapper, which clears the timer it holds and sets a new one              *)
ExecutedFunction ==
    /\ \A t \in timers : now < t.due
    /\ now + Wait <= MaxTime
    /\ NextTimerId <= MaxCalls
    /\ \E args \in DebounceInputs :
          /\ timers' = ClearTimeout(timers, timeout) \cup
                 {[id |-> NextTimerId, args |-> args, due |-> now + Wait]}
          /\ call' = [fn |-> "executedFunction", args |-> args, at |-> now]
    /\ timeout' = TimerId(NextTimerId)
    /\ UNCHANGED <<weaponsData, filteredData, loads, currentFilters, isDarkTheme, now>>

(* later(): the timer runs; clearTimeout(timeout), then func(...args),     *)
(* which is handleTableSearch with the event of the call that set it       *)
Later ==
    \E t \in timers :
        /\ now >= t.due
        /\ timers' = ClearTimeout(timers \ {t}, timeout)
        /\ currentFilters' = [currentFilters EXCEPT !.search = t.args]
        /\ filteredData' = applyFilters(currentFilters')
        /\ call' = [fn |-> "handleTableSearch", args |-> t.args, at |-> now]
        /\ UNCHANGED <<weaponsData, loads, isDarkTheme, timeout, now>>

\* 100 ms pass
Tick ==
    /\ \A t \in timers : now < t.due
    /\ now < MaxTime
    /\ now' = now + 1
    /\ UNCHANGED <<weaponsData, filteredData, loads, call, currentFilters,
                   isDarkTheme, timeout, timers>>

InitDebounce ==
    /\ weaponsData \in {processWeaponData(rawData) :
                           rawData \in {<<RowM433, RowM87>>, <<RowM87, RowPW7>>}}
    /\ filteredData = weaponsData
    /\ loads = <<>>
    /\ call = [fn |-> "none"]
    /\ InitPage

DebounceNext ==
    \/ ExecutedFunction
    \/ Later
    \/ Tick

-----------------------------------------------------------------------------
(* sortWeapons and getBestWeaponAtRange on collections in every order *)

\* a negative damage next to a usable fire rate
RowNegative ==
    Row(<< <<"P","I","S","T","O","L">>, <<"P","1","8">>,
           <<"2","0">>, <<"2","0">>, <<"-","5">>, <<"-","5">>, <<"0">>,
           <<"6","0","0">>, <<"2","0","0">>, <<"1","5","0">>,
           <<"5","0">>, <<"5","0">> >>)

SampleWeapons ==
    {NormalizeRow(row) :
        row \in {RowM433, RowPW7, RowM2010, RowM87, RowDirty, RowNegative}}

\* the longest collection handed to a ranking function
MaxSortLen == 3

RankInputs == SeqsUpTo(SampleWeapons, MaxSortLen)

SortByInputs == {"ttk", "damage", "rpm", "dps", "name"}

SortRangeInputs == {"10M", "20M", "35M", "50M"}

CallSortWeapons ==
    /\ call.fn = "none"
    /\ \E weapons \in RankInputs, sortBy \in SortByInputs, range \in SortRangeInputs :
          call' = [fn |-> "sortWeapons", weapons |-> weapons, sortBy |-> sortBy,
                   range |-> range, ret |-> sortWeapons(weapons, sortBy, range)]
    /\ UNCHANGED <<weaponsData, filteredData, loads>>
    /\ UNCHANGED pageVars

CallGetBestWeaponAtRange ==
    /\ call.fn = "none"
    /\ \E weapons \in RankInputs, range \in SortRangeInputs :
          call' = [fn |-> "getBestWeaponAtRange", weapons |-> weapons,
                   range |-> range, ret |-> getBestWeaponAtRange(weapons, range)]
    /\ UNCHANGED <<weaponsData, filteredData, loads>>
    /\ UNCHANGED pageVars

RankNext ==
    \/ Return
    \/ CallSortWeapons
    \/ CallGetBestWeaponAtRange

-----------------------------------------------------------------------------
Init ==
    /\ weaponsData = <<>>
    /\ filteredData = <<>>
    /\ loads = <<>>
    /\ call = [fn |-> "none"]
    /\ InitPage

Next ==
    \/ LoadWeaponData
    \/ FetchOk
    \/ LoadFails
    \/ ParseComplete
    \/ ParseError

\* the application: loading the data set
Spec == Init /\ [][Next]_vars

\* calculateTTK on every input
SpecTTK == Init /\ [][TTKNext]_vars

\* calculateRecoilAdjustedTTK on every input
SpecRecoil == Init /\ [][RecoilNext]_vars

\* the functions of one record, one raw cell or one data set on every input
SpecRecord == Init /\ [][RecordNext]_vars

\* filtering, ranking and statistics on every loaded collection
SpecQuery == InitQuery /\ [][QueryNext]_vars

\* sortWeapons and getBestWeaponAtRange on every input
SpecRank == Init /\ [][RankNext]_vars

\* filtering and exporting every loaded collection
SpecExport == InitExport /\ [][ExportNext]_vars

\* the TTK chart of every loaded collection under every method
SpecChart == InitChart /\ [][ChartNext]_vars

\* the page under every sequence of events
SpecUI == InitUI /\ [][UINext]_vars

(* the search box under every timing of input events; the browser lets     *)
(* time pass and runs every timer that has expired                          *)
SpecDebounce ==
    InitDebounce /\ [][DebounceNext]_vars /\ WF_vars(Tick) /\ WF_vars(Later)

-----------------------------------------------------------------------------
(* Claims *)

\* x is unknown (no number) or a number <= 0
UnknownOrNonPositive(x) ==
    x.k \in {"null", "undefined", "NaN"} \/ (x.k = "num" /\ x.v <= 0)

\* x is a finite number > 0
Positive(x) == x.k = "num" /\ x.v > 0

\* shots = ceil(100 / damage), damage.v in tenths
IsShotsToKill(shots, damage) ==
    shots * damage.v >= PLAYER_HEALTH * 10 /\ (shots - 1) * damage.v < PLAYER_HEALTH * 10

\* t (tenths) is (shots - 1) * (60000 / rpm) + ads rounded to one decimal:
\* t - 1/2 <= 10 * ttk < t + 1/2
IsRounded(t, shots, rpm, ads) ==
    /\ (2 * (t - ads) - 1) * rpm.v <= 2 * (shots - 1) * 6000000
    /\ 2 * (shots - 1) * 6000000 < (2 * (t - ads) + 1) * rpm.v

\* t is that rounded value, with 1 in the place of 0
IsZeroFlooredTTK(t, shots, rpm, ads) ==
    \/ (t # 0 /\ IsRounded(t, shots, rpm, ads))
    \/ (t = 10 /\ IsRounded(0, shots, rpm, ads))

\* the ADS time a call adds: 0 when the argument is absent or unknown
AdsOf(adsTime) == IF adsTime.k = "num" THEN adsTime.v ELSE 0

(* C1: calculateTTK returns no value whenever damage or rpm is unknown or  *)
(* <= 0, and for damage > 0, rpm > 0 and adsTime >= 0 it returns           *)
(* (ceil(100/damage) - 1) * (60000/rpm) + adsTime rounded to one decimal,  *)
(* with 1 in the place of a rounded value of exactly 0.                    *)
C1_TTKContract ==
    call.fn = "calculateTTK" =>
        /\ (UnknownOrNonPositive(call.damage) \/ UnknownOrNonPositive(call.rpm))
              => call.ret = Null
        /\ (Positive(call.damage) /\ Positive(call.rpm) /\ AdsOf(call.adsTime) >= 0)
              => /\ call.ret.k = "num"
                 /\ \E shots \in 1..(PLAYER_HEALTH * 10) :
                       /\ IsShotsToKill(shots, call.damage)
                       /\ IsZeroFlooredTTK(call.ret.v, shots, call.rpm,
                                           AdsOf(call.adsTime))

\* 33.5 damage at 900 rpm with 250 ms ADS: 3 shots, 2 * 66.67 + 250 = 383.3
C1_Witness ==
    /\ call.fn = "calculateTTK"
    /\ call.damage = Num(335) /\ call.rpm = Num(9000) /\ call.adsTime = Num(2500)
    /\ call.ret = Num(3833)

\* a call of calculateTTK with damage > 0, rpm > 0 and no ADS time
NoAdsCall ==
    /\ call.fn = "calculateTTK"
    /\ Positive(call.damage) /\ Positive(call.rpm)
    /\ AdsOf(call.adsTime) = 0

\* the call's result is the plain rounded value: nothing was substituted
Unsubstituted ==
    \E shots \in 1..(PLAYER_HEALTH * 10) :
        /\ IsShotsToKill(shots, call.damage)
        /\ IsRounded(call.ret.v, shots, call.rpm, AdsOf(call.adsTime))

\* one shot kills: ceil(100 / damage) = 1
OneShot(damage) == damage.v >= PLAYER_HEALTH * 10

(* C2, as claimed: for all damage > 0 and rpm > 0, calculateTTK with no    *)
(* ADS time is >= 1, and no multi-shot kill yields a result below 1 or     *)
(* triggers the substitution of 1.                                         *)
C2_Original ==
    NoAdsCall =>
        /\ call.ret.k = "num" /\ call.ret.v >= 10
        /\ ~OneShot(call.damage) => Unsubstituted

(* C2, amended: for all damage > 0 and 0 < rpm <= 60000, calculateTTK with *)
(* no ADS time is >= 1; the substitution of 1 happens only for a one-shot  *)
(* kill with adsTime = 0, where the result is exactly 1; a multi-shot kill *)
(* and a call with an ADS time > 0 return the plain rounded value.         *)
C2_FloorOnlyOneShot ==
    /\ (NoAdsCall /\ call.rpm.v <= 600000) =>
          /\ call.ret.k = "num" /\ call.ret.v >= 10
          /\ ~OneShot(call.damage) => Unsubstituted
          /\ OneShot(call.damage) => call.ret = Num(10)
    /\ (/\ call.fn = "calculateTTK"
        /\ Positive(call.damage) /\ Positive(call.rpm)
        /\ AdsOf(call.adsTime) > 0) => Unsubstituted

\* a one-shot kill with no ADS time at 600 rpm: 0 ms, reported as 1
C2_Witness ==
    /\ call.fn = "calculateTTK"
    /\ call.damage = Num(1000) /\ call.rpm = Num(6000) /\ call.adsTime = Num(0)
    /\ call.ret = Num(10)

-----------------------------------------------------------------------------
(* Claims about calculateRecoilAdjustedTTK *)

\* a call of calculateRecoilAdjustedTTK that passes the guard
RecoilCall ==
    /\ call.fn = "calculateRecoilAdjustedTTK"
    /\ Positive(call.damage) /\ Positive(call.rpm)

\* the weapon type is Sniper Rifle or Shotgun in some letter case
ImmuneCall == RecoilCall /\ call.weaponType \in {Str(t) : t \in ImmuneSpellings}

NonImmuneCall == RecoilCall /\ ~(call.weaponType \in {Str(t) : t \in ImmuneSpellings})

(* C3: with weaponType Sniper Rifle or Shotgun in any letter case, the     *)
(* recoil-adjusted TTK is exactly calculateTTK(damage, rpm, 0), whatever   *)
(* precision, control and range are.                                       *)
C3_ImmuneEqualsHipFire ==
    ImmuneCall => call.ret = calculateTTK(call.damage, call.rpm, Num(0))

\* a lower-case sniper rifle, 75 damage at 40 rpm, 10% precision and control
\* at 70M: (2 - 1) * 1500 = 1500 ms
C3_Witness ==
    /\ ImmuneCall
    /\ call.weaponType = Str(<<"s","n","i","p","e","r"," ","r","i","f","l","e">>)
    /\ call.damage = Num(750) /\ call.rpm = Num(400)
    /\ call.precision = Num(100) /\ call.control = Num(100) /\ call.range = "70M"
    /\ call.ret = Num(15000)

\* precision or control as a number of the data model's domain 0..100
InDomain(x) == x.k = "num" /\ x.v >= 0 /\ x.v <= 1000

\* e = ceil(n / d) for d > 0
IsCeil(e, n, d) == e * d >= n /\ (e - 1) * d < n

Unknown(x) == x = Undefined \/ x = Null

(* C5, as claimed: when precision or control is unknown (absent or null)   *)
(* the base hit probability is 1.0, so a non-immune call returns what it   *)
(* returns with precision = 100 and control = 100.                         *)
C5_UnknownDefaultsToFull ==
    (NonImmuneCall /\ (Unknown(call.precision) \/ Unknown(call.control))) =>
        call.ret = calculateRecoilAdjustedTTK(call.damage, call.rpm, Num(1000),
                                              Num(1000), call.range, call.weaponType)

(* C6, as claimed: for every non-immune call with damage > 0 and rpm > 0   *)
(* and every precision, control and range, the final probability p lies in *)
(* [0.05, 1] and the result is the finite number                           *)
(* (ceil(requiredHits / p) - 1) * (60000 / rpm) rounded to one decimal     *)
(* with the zero-floor rule; it is never NaN.                              *)
C6_ProbabilityClampedFinite ==
    NonImmuneCall =>
        /\ call.p.k = "rat"
        /\ 20 * call.p.n >= call.p.d /\ call.p.n <= call.p.d
        /\ call.ret.k = "num"
        /\ \E hits \in 1..(PLAYER_HEALTH * 10) :
              /\ IsShotsToKill(hits, call.damage)
              /\ \E expectedShots \in 1..(20 * hits) :
                    /\ IsCeil(expectedShots, hits * call.p.d, call.p.n)
                    /\ IsZeroFlooredTTK(call.ret.v, expectedShots, call.rpm, 0)

-----------------------------------------------------------------------------
(* Claims about the functions of one record *)

\* the damage the record holds at a range of the call
DamageAt(range) == Get(call.weapon, range)

(* C7, as claimed: getDamageDropoff returns                                *)
(* ((damageA - damageB) / damageA) * 100 rounded to one decimal whenever   *)
(* both damages are known and damageA is not 0 (damageB = 0 gives 100),    *)
(* and returns no value exactly when a damage is unknown or damageA is 0.  *)
C7_DropoffContract ==
    call.fn = "getDamageDropoff" =>
        LET a == DamageAt(call.rangeStart)
            b == DamageAt(call.rangeEnd)
            defined == a.k = "num" /\ b.k = "num" /\ a.v # 0
        IN  /\ (a.k \in {"num", "null", "undefined"} /\ b.k \in {"num", "null", "undefined"})
                  => (call.ret = Null <=> ~defined)
            /\ defined =>
                  /\ call.ret.k = "num"
                  /\ (2 * call.ret.v - 1) * a.v <= 2 * 1000 * (a.v - b.v)
                  /\ 2 * 1000 * (a.v - b.v) < (2 * call.ret.v + 1) * a.v

(* C8: isWeaponDataComplete(record) is false if and only if the name, the  *)
(* weapon type, one of the five range damages, RPM or ADS is unknown or    *)
(* blank; 0 counts as known.                                               *)
C8_CompleteIffAllKnown ==
    call.fn = "isWeaponDataComplete" =>
        LET w == call.weapon
            missing ==
                \/ \E f \in {"Weapon", "Weapon Type"} : w[f] = Str(<<>>)
                \/ \E f \in RangeSet \cup {"RPM", "ADS"} : w[f] = Null
        IN  call.ret = ~missing

\* every range damage 0, RPM and ADS known: complete
C8_Witness ==
    /\ call.fn = "isWeaponDataComplete"
    /\ \A r \in RangeSet : call.weapon[r] = Num(0)
    /\ call.weapon["RPM"] = Num(250) /\ call.weapon["ADS"] = Num(250)
    /\ call.weapon["Weapon"] = Str(M433) /\ call.weapon["Weapon Type"] = Str(SMG)
    /\ call.ret = TRUE

(* C9, as claimed: parseNumeric yields a known number if and only if the   *)
(* trimmed raw value is non-empty and the whole value is a finite number;  *)
(* every other input ('', ' ', 'abc', '25abc', 'Infinity') yields unknown. *)
C9_StrictParse ==
    call.fn = "parseNumeric" =>
        LET strict == IF call.value.k = "str" THEN Number(call.value) ELSE NaN
            wellFormed ==
                /\ call.value.k = "str"
                /\ trim(call.value.s) # <<>>
                /\ strict.k = "num"
        IN  IF wellFormed THEN call.ret = strict ELSE call.ret = Null

-----------------------------------------------------------------------------
(* Claims about ingestion *)

(* C10, as claimed: after ingestion every range damage whose raw value     *)
(* parses to exactly 33 holds 33.5, so no ingested record has a range      *)
(* damage equal to 33, and its cached shots-to-kill is that of 33.5 (3),   *)
(* never that of 33 (4).                                                   *)
C10_DamageCorrection ==
    \A i \in 1..Len(weaponsData) : \A r \in RangeSet :
        /\ weaponsData[i][r] # Num(330)
        /\ weaponsData[i][r] = Num(335) => weaponsData[i][STKKey(r)] = Num(30)

(* C11, as claimed: every numeric field of every ingested record is either *)
(* unknown or a finite number meeting its domain constraint: the range     *)
(* damages, DPS and ADS non-negative, RPM positive; never NaN, infinite or *)
(* negative.                                                               *)
C11_NumericFieldsInDomain ==
    \A i \in 1..Len(weaponsData) :
        /\ \A f \in RangeSet \cup {"DPS", "ADS"} :
              \/ weaponsData[i][f] = Null
              \/ weaponsData[i][f].k = "num" /\ weaponsData[i][f].v >= 0
        /\ \/ weaponsData[i]["RPM"] = Null
           \/ weaponsData[i]["RPM"].k = "num" /\ weaponsData[i]["RPM"].v > 0

\* a cell is blank when the row has no such key or it holds only whitespace
IsBlankCell(row, column) ==
    \/ column \notin DOMAIN row
    \/ \A i \in 1..Len(row[column].s) : IsSpace(row[column].s[i])

\* the rows that carry both a name and a type
KeptIndices(rawData) ==
    {i \in 1..Len(rawData) :
        ~IsBlankCell(rawData[i], "Weapon") /\ ~IsBlankCell(rawData[i], "Weapon Type")}

\* the j-th smallest element of a set of indices
NthOf(S, j) == CHOOSE i \in S : Cardinality({k \in S : k < i}) = j - 1

(* C13: processWeaponData drops every raw row whose weapon name or weapon  *)
(* type is missing or blank after trimming and keeps every other row       *)
(* exactly once, in input order: the j-th record of the result is the      *)
(* normalized j-th row that carries both a name and a type.                *)
C13_DropsUnnamedKeepsOrder ==
    call.fn = "processWeaponData" =>
        LET kept == KeptIndices(call.rawData)
        IN  /\ Len(call.ret) = Cardinality(kept)
            /\ \A j \in 1..Len(call.ret) :
                  call.ret[j] = NormalizeRow(call.rawData[NthOf(kept, j)])

\* a row without a type is dropped from between the rows around it
C13_Witness ==
    /\ call.fn = "processWeaponData"
    /\ Len(call.rawData) = 2
    /\ call.rawData[1] = RowUntyped
    /\ call.rawData[2] = RowShort
    /\ Len(call.ret) = 1
    /\ call.ret[1]["Weapon"] = Str(<<"S","V","K">>)

-----------------------------------------------------------------------------
(* Claims about the query engine *)

\* the derived fields of a record, computed afresh from its stored fields
IsFreshlyDerived(w) ==
    /\ \A r \in RangeSet :
          /\ w[TTKKey(r)] = calculateTTK(w[r], w["RPM"], Num(0))
          /\ w[STKKey(r)] = calculateShotsToKill(w[r])
    /\ w["isComplete"] = isWeaponDataComplete(w)
    /\ w["averageDamage"] = getAverageDamage(w)

(* C12: for every record of the master collection and of the filtered      *)
(* view, the derived fields cached at ingestion (TTK and shots to kill per *)
(* range, isComplete, averageDamage) equal a fresh recomputation from the  *)
(* stored fields, after any sequence of filter, reset, top-N (sort) and    *)
(* statistics operations.                                                  *)
C12_DerivedFieldsFresh ==
    /\ \A i \in 1..Len(weaponsData) : IsFreshlyDerived(weaponsData[i])
    /\ \A i \in 1..Len(filteredData) : IsFreshlyDerived(filteredData[i])

\* a ranking is asked for while a filter that removed a record is in force
C12_Witness ==
    /\ call.fn = "getTopWeapons"
    /\ Len(filteredData) = 1 /\ Len(weaponsData) = 2
    /\ Len(call.ret) = 2
    /\ call.ret[1] = weaponsData[2]
    /\ weaponsData[1]["TTK_10M"] = Num(2169)
    /\ weaponsData[2]["TTK_10M"] = Num(2000)

\* text holds term, letter case ignored
HoldsIgnoringCase(text, term) ==
    \E off \in 0..(Len(text) - Len(term)) :
        \A k \in 1..Len(term) :
            ToLowerChar(text[off + k]) = ToLowerChar(term[k])

\* a criterion is active when the code looks at it: a non-empty type list
\* without 'ALL', a search text that is not blank, a bound that is a number
\* other than 0, completeOnly set
TypesActive(filters) ==
    /\ filters["types"] # Undefined
    /\ filters["types"].a # <<>>
    /\ \A i \in 1..Len(filters["types"].a) : filters["types"].a[i] # ALL

SearchActive(filters) ==
    /\ filters["search"] # Undefined
    /\ \E i \in 1..Len(filters["search"].s) : ~IsSpace(filters["search"].s[i])

BoundActive(bound) == bound.k = "num" /\ bound.v # 0

\* the record satisfies every active criterion
SatisfiesAll(w, filters) ==
    /\ TypesActive(filters) =>
          \E i \in 1..Len(filters["types"].a) :
              filters["types"].a[i] = w["Weapon Type"].s
    /\ SearchActive(filters) =>
          \/ HoldsIgnoringCase(w["Weapon"].s, filters["search"].s)
          \/ HoldsIgnoringCase(w["Weapon Type"].s, filters["search"].s)
    /\ (BoundActive(filters["minRPM"]) \/ BoundActive(filters["maxRPM"])) =>
          /\ w["RPM"] # Null
          /\ BoundActive(filters["minRPM"]) => w["RPM"].v >= filters["minRPM"].v
          /\ BoundActive(filters["maxRPM"]) => w["RPM"].v <= filters["maxRPM"].v
    /\ filters["completeOnly"] = Bool(TRUE) => w["isComplete"]

(* C14: applyFilters(criteria) returns exactly the records of the master   *)
(* collection, in master order, that satisfy every active criterion at     *)
(* once (type-set membership unless 'ALL' is selected, case-insensitive    *)
(* substring match of a non-blank search text against name or type, RPM    *)
(* bounds where a non-zero bound is set, completeness), and the stages     *)
(* applied in the documented order (type, search, RPM, completeness) or in *)
(* the reverse of the code's order give the same result.                   *)
C14_FiltersConjoin ==
    call.fn = "applyFilters" =>
        LET f == call.filters
            satisfies(w) == SatisfiesAll(w, f)
        IN  /\ call.ret = SelectSeq(weaponsData, satisfies)
            /\ call.ret = filteredData
            /\ call.ret = CompleteStage(RPMStage(SearchStage(
                              TypeStage(weaponsData, f), f), f), f)
            /\ call.ret = TypeStage(SearchStage(CompleteStage(
                              RPMStage(weaponsData, f), f), f), f)

\* every criterion active, one of two records passing all of them
C14_Witness ==
    /\ call.fn = "applyFilters"
    /\ call.filters = Filters(Arr(<<SMG, SHOTGUN>>), Str(<<"S">>), Bool(TRUE),
                              Undefined, Num(8500))
    /\ Len(weaponsData) = 2
    /\ weaponsData[1]["Weapon"] = Str(<<"P","W","7">>)
    /\ weaponsData[2]["Weapon"] = Str(<<"M","8","7">>)
    /\ call.ret = <<weaponsData[2]>>

\* a bound is given when the criteria hold a number for it, 0 included
BoundIsGiven(bound) == bound.k = "num"

(* C15, as claimed: in applyFilters, whenever any RPM bound is given (a    *)
(* minimum, a maximum or both, a bound of 0 included), no returned record  *)
(* has an unknown RPM, an RPM below the minimum or an RPM above the        *)
(* maximum.                                                                *)
C15_AnyBoundExcludesUnknown ==
    (/\ call.fn = "applyFilters"
     /\ \/ BoundIsGiven(call.filters["minRPM"])
        \/ BoundIsGiven(call.filters["maxRPM"])) =>
        \A i \in 1..Len(call.ret) :
            LET rpm == call.ret[i]["RPM"]
            IN  /\ rpm # Null
                /\ BoundIsGiven(call.filters["minRPM"]) =>
                      rpm.v >= call.filters["minRPM"].v
                /\ BoundIsGiven(call.filters["maxRPM"]) =>
                      rpm.v <= call.filters["maxRPM"].v

\* calculateTTK(damage at range, RPM) of a record
TTKAt(w, range) == calculateTTK(Get(w, range), Get(w, "RPM"), Num(0))

(* C16: sortWeapons(records, 'ttk', range) places every record with        *)
(* undefined TTK after every record with defined TTK, and the records with *)
(* defined TTK in non-decreasing order of calculateTTK(damage at range,    *)
(* RPM), whatever the order of the input.                                  *)
C16_TTKSortOrder ==
    (call.fn = "sortWeapons" /\ call.sortBy = "ttk") =>
        \A i, j \in 1..Len(call.ret) :
            i < j =>
                LET ti == TTKAt(call.ret[i], call.range)
                    tj == TTKAt(call.ret[j], call.range)
                IN  /\ ti = Null => tj = Null
                    /\ (ti # Null /\ tj # Null) => ti.v <= tj.v

\* an input that starts with an undefined TTK and then descends
C16_Witness ==
    /\ call.fn = "sortWeapons" /\ call.sortBy = "ttk" /\ call.range = "10M"
    /\ Len(call.weapons) = 3
    /\ TTKAt(call.weapons[1], "10M") = Null
    /\ TTKAt(call.weapons[2], "10M") = Num(2169)
    /\ TTKAt(call.weapons[3], "10M") = Num(10)
    /\ call.ret = <<call.weapons[3], call.weapons[2], call.weapons[1]>>

\* the field a descending metric ranks by, an unknown value ranked as 0
RankedValue(w, sortBy, range) ==
    LET value == CASE sortBy = "damage" -> Get(w, range)
                   [] sortBy = "rpm" -> Get(w, "RPM")
                   [] sortBy = "dps" -> Get(w, "DPS")
    IN  IF value \in {Null, Undefined} THEN Num(0) ELSE value

(* C17: sortWeapons with metric 'damage', 'rpm' or 'dps' returns the       *)
(* records in non-increasing order of the named field (the damage at the   *)
(* given range for 'damage'), an unknown value ranked as 0, so that no     *)
(* record with an unknown value precedes one with a positive value.        *)
C17_DescendingSortOrder ==
    (call.fn = "sortWeapons" /\ call.sortBy \in {"damage", "rpm", "dps"}) =>
        \A i, j \in 1..Len(call.ret) :
            i < j =>
                ~NumLess(RankedValue(call.ret[i], call.sortBy, call.range),
                         RankedValue(call.ret[j], call.sortBy, call.range))

\* an unknown damage ahead of a positive and of a negative one in the input
C17_Witness ==
    /\ call.fn = "sortWeapons" /\ call.sortBy = "damage" /\ call.range = "50M"
    /\ Len(call.weapons) = 3
    /\ call.weapons[1]["50M"] = Null
    /\ call.weapons[2]["50M"] = Num(-50)
    /\ call.weapons[3]["50M"] = Num(200)
    /\ call.ret = <<call.weapons[3], call.weapons[1], call.weapons[2]>>

\* the sort key of a record: its TTK with undefined as +Infinity, or its
\* ranked field; every record has the same key under an unrecognized metric
SortKey(w, sortBy, range) ==
    CASE sortBy = "ttk" ->
            IF TTKAt(w, range) = Null THEN Inf(1) ELSE TTKAt(w, range)
      [] sortBy \in {"damage", "rpm", "dps"} -> RankedValue(w, sortBy, range)
      [] OTHER -> Num(0)

(* C18: sortWeapons returns a permutation of its input in which records    *)
(* with equal sort keys keep their relative input order, and with an       *)
(* unrecognized metric key the output is the input sequence unchanged.     *)
C18_StablePermutation ==
    call.fn = "sortWeapons" =>
        /\ Len(call.ret) = Len(call.weapons)
        /\ \E pi \in Permutations(1..Len(call.weapons)) :
              /\ \A j \in 1..Len(call.ret) : call.ret[j] = call.weapons[pi[j]]
              /\ \A i, j \in 1..Len(call.ret) :
                    (/\ i < j
                     /\ SortKey(call.ret[i], call.sortBy, call.range)
                          = SortKey(call.ret[j], call.sortBy, call.range))
                    => pi[i] < pi[j]
        /\ call.sortBy \notin {"ttk", "damage", "rpm", "dps"} =>
              call.ret = call.weapons

\* two different one-shot weapons behind a slower one: they move to the
\* front and keep their order
C18_Witness ==
    /\ call.fn = "sortWeapons" /\ call.sortBy = "ttk" /\ call.range = "10M"
    /\ Len(call.weapons) = 3
    /\ TTKAt(call.weapons[1], "10M") = Num(2169)
    /\ TTKAt(call.weapons[2], "10M") = Num(10)
    /\ TTKAt(call.weapons[3], "10M") = Num(10)
    /\ call.weapons[2] # call.weapons[3]
    /\ call.ret = <<call.weapons[2], call.weapons[3], call.weapons[1]>>

\* the ranking metric of a record has a value
MetricDefined(w, metric, range) ==
    CASE metric = "ttk" -> TTKAt(w, range) # Null
      [] metric = "damage" -> Get(w, range) \notin {Null, Undefined}
      [] metric = "rpm" -> Get(w, "RPM") \notin {Null, Undefined}
      [] metric = "dps" -> Get(w, "DPS") \notin {Null, Undefined}

(* C19, as claimed: getTopWeapons(n, metric, range) returns at most n      *)
(* records, none of which has an undefined value of the ranking metric     *)
(* (for 'ttk': calculateTTK at that range is defined; for 'damage': the    *)
(* damage at range is known), and only the records lacking that value are  *)
(* excluded: with n at least the size of the collection, every record      *)
(* whose metric is defined is returned.                                    *)
C19_TopRankedOnly ==
    call.fn = "getTopWeapons" =>
        /\ Len(call.ret) <= call.n
        /\ \A j \in 1..Len(call.ret) :
              MetricDefined(call.ret[j], call.metric, call.range)
        /\ call.n >= Len(weaponsData) =>
              Len(call.ret) = Cardinality({i \in 1..Len(weaponsData) :
                  MetricDefined(weaponsData[i], call.metric, call.range)})

(* C20, as claimed: getBestWeaponAtRange(records, range) returns the first *)
(* record whose calculateTTK at that range is defined and is <= the TTK of *)
(* every other record with a defined TTK there, and returns no record      *)
(* exactly when no record has a defined TTK at that range.                 *)
C20_BestIsMinimumTTK ==
    call.fn = "getBestWeaponAtRange" =>
        LET ranked == {i \in 1..Len(call.weapons) :
                          TTKAt(call.weapons[i], call.range) # Null}
        IN  IF ranked = {} THEN call.ret = Null
            ELSE /\ call.ret # Null
                 /\ \E i \in ranked :
                       /\ call.ret.w = call.weapons[i]
                       /\ \A j \in ranked :
                             /\ TTKAt(call.weapons[i], call.range).v
                                  <= TTKAt(call.weapons[j], call.range).v
                             /\ j < i => TTKAt(call.weapons[i], call.range).v
                                           < TTKAt(call.weapons[j], call.range).v

\* a finite number
Finite(x) == x.k \in {"num", "rat"}

\* the minimum, maximum and mean of a non-empty list of known values
StatsOver(known) ==
    <<MinOf(known), MaxOf(known), NumDiv(NumSum(known), Len(known))>>

(* C21, as claimed: getWeaponTypeStats(type) reports the RPM minimum,      *)
(* maximum and mean over the known RPM values of the type and, per range,  *)
(* the damage minimum, maximum and mean over the known values; the RPM     *)
(* block, or a range's block, is left out when no record of the type has a *)
(* known value there, so that finite data never yield a NaN or an infinity.*)
C21_TypeStatsOverKnown ==
    (call.fn = "getWeaponTypeStats" /\ call.ret # Null) =>
        LET weapons == getWeaponsByType(call.weaponType)
            rpms == NotNullOf(weapons, "RPM")
        IN  /\ IF rpms = <<>> THEN "rpm" \notin DOMAIN call.ret
               ELSE /\ "rpm" \in DOMAIN call.ret
                    /\ <<call.ret.rpm.min, call.ret.rpm.max, call.ret.rpm.avg>>
                         = StatsOver(rpms)
                    /\ (\A i \in 1..Len(rpms) : Finite(rpms[i]))
                          => Finite(call.ret.rpm.avg)
            /\ \A range \in RangeSet :
                  LET damages == NotNullOf(weapons, range)
                  IN  IF damages = <<>> THEN range \notin DOMAIN call.ret.ranges
                      ELSE /\ range \in DOMAIN call.ret.ranges
                           /\ <<call.ret.ranges[range].minDamage,
                                 call.ret.ranges[range].maxDamage,
                                 call.ret.ranges[range].avgDamage>>
                                = StatsOver(damages)

\* the number a percentage string "N%" shows
ShownPercent(text) == DigitsVal(SubSeq(text, 1, Len(text) - 1))

\* k is n / d rounded to the nearest integer, a tie going up
IsNearest(k, n, d) == 2 * k * d - d <= 2 * n /\ 2 * n < 2 * k * d + d

LoadSettles == Len(loads') < Len(loads)

(* C23, as claimed: if the load step fails (the fetch rejects, the         *)
(* response is not OK, or parsing reports failure), loadWeaponData rejects *)
(* instead of resolving with an empty or partial collection, and           *)
(* weaponsData and filteredData are left as they were before the call.     *)
C23_FailureSurfaced ==
    [][(LoadSettles /\ call'.failure # "none") =>
          /\ call'.settled = "rejected"
          /\ UNCHANGED <<weaponsData, filteredData>>]_vars

\* a step in which a call of loadWeaponData completes successfully
LoadCompletes == LoadSettles /\ call'.settled = "resolved"

(* C24: after any sequence of load requests, overlapping or not, each      *)
(* successful completion replaces the collection wholesale: weaponsData    *)
(* and filteredData both become exactly the normalized rows of the load    *)
(* that completes, no other step of a load changes them, and in no state   *)
(* do the two collections come from different loads.                       *)
C24_ReloadReplaces ==
    /\ [](filteredData = weaponsData)
    /\ [][IF LoadCompletes
          THEN /\ weaponsData' = Processed[call'.data]
               /\ filteredData' = Processed[call'.data]
          ELSE UNCHANGED <<weaponsData, filteredData>>]_vars

\* one load completes over a loaded collection while another is in flight
C24_Witness ==
    /\ call.fn = "loadWeaponData"
    /\ call.settled = "resolved"
    /\ call.data = <<RowDirty, RowBlank>>
    /\ Len(weaponsData) = 1
    /\ filteredData = weaponsData
    /\ loads = <<"text">>

\* the fields of the tabular input
DeclaredFields ==
    {"Weapon Type", "Weapon", "RPM", "DPS", "ADS", "Precision", "Control"}
    \cup RangeSet

(* C25, as claimed: exporting any filtered collection with exportToCSV and *)
(* feeding the resulting rows back through the normalizer yields records   *)
(* equal to the exported ones on every declared field (weapon type, name,  *)
(* the five range damages, RPM, DPS, ADS, precision, control), whatever    *)
(* characters the names hold and whichever fields are unknown.             *)
C25_ExportRoundTrip ==
    call.fn = "downloadCSV" =>
        LET back == processWeaponData(PapaParse(call.csvContent.s))
        IN  /\ Len(back) = Len(call.weapons)
            /\ \A i \in 1..Len(back) : \A field \in DeclaredFields :
                  Get(back[i], field) = Get(call.weapons[i], field)

\* a string field that holds a separator or a quote
NeedsQuoting(value) ==
    /\ value.k = "str"
    /\ includes(value.s, <<",">>) \/ includes(value.s, <<"\"">>)

(* C26, as claimed: the export of the current filtered view has the column *)
(* layout of the input: its header line is exactly Weapon Type, Weapon,    *)
(* 10M, 20M, 35M, 50M, 70M, RPM, DPS, ADS, Precision, Control, in that     *)
(* order and with no other column, and every string field that holds a     *)
(* separator or a quote is quoted, its quotes doubled.                     *)
C26_ExportLayout ==
    call.fn = "downloadCSV" =>
        /\ SplitOutsideQuotes(call.csvContent.s, "\n")[1]
              = Join([j \in 1..Len(Columns) |-> KeyChars(Columns[j])], <<",">>)
        /\ \A i \in 1..Len(call.weapons) : \A field \in {"Weapon Type", "Weapon"} :
              NeedsQuoting(call.weapons[i][field]) =>
                  includes(call.csvContent.s,
                           <<"\"">> \o DoubleQuotes(call.weapons[i][field].s)
                           \o <<"\"", ",">>)

\* the filter, sort, top-N and statistics operations
QueryOperations ==
    {"applyFilters", "sortWeapons", "getTopWeapons", "getWeaponsForRange",
     "getBestWeaponAtRange", "getWeaponTypeStats", "getWeaponStatistics"}

(* C27, as claimed: no filter, sort, top-N or statistics operation mutates *)
(* shared state: a call of applyFilters, sortWeapons, getTopWeapons,       *)
(* getWeaponsForRange, getBestWeaponAtRange, getWeaponTypeStats or         *)
(* getWeaponStatistics leaves the master collection and the current        *)
(* filtered collection as they were and only returns a value.              *)
C27_NoSharedStateMutation ==
    [][(call.fn = "none" /\ call'.fn \in QueryOperations) =>
          UNCHANGED <<weaponsData, filteredData>>]_vars

(* C28, as claimed: when the TTK chart is computed with the Recoil         *)
(* Adjusted method, every weapon of type Sniper Rifle or Shotgun is        *)
(* immune: its charted TTK equals its hip-fire TTK                         *)
(* calculateTTK(damage, rpm, 0) at every range, with no recoil penalty.    *)
C28_ChartImmuneTypes ==
    (call.fn = "createTTKChart" /\ call.method = Str(RECOIL)) =>
        \A i \in 1..Len(call.ret) :
            IsImmune(call.ret[i]["Weapon Type"]) =>
                call.ret[i]["calculatedTTK"]
                    = calculateTTK(call.ret[i][call.range], call.ret[i]["RPM"], Num(0))

\* the record passes the type list and the search text of the filter state
PassesCurrent(w) ==
    /\ TypesActive(currentFilters) =>
          \E i \in 1..Len(currentFilters["types"].a) :
              currentFilters["types"].a[i] = w["Weapon Type"].s
    /\ SearchActive(currentFilters) =>
          \/ HoldsIgnoringCase(w["Weapon"].s, currentFilters["search"].s)
          \/ HoldsIgnoringCase(w["Weapon Type"].s, currentFilters["search"].s)

(* C29: after the initial load, in every state reached by any sequence of  *)
(* events of the page (type filter, range, chart type, table search, fire  *)
(* mode, theme toggle, compare all, reset, export), filteredData is the    *)
(* master collection filtered by the current filter state, hence a         *)
(* sub-sequence of weaponsData; currentFilters.types is never empty; and   *)
(* after a reset filteredData equals weaponsData and the filter state is   *)
(* back at its defaults.                                                   *)
C29_ViewFollowsFilters ==
    /\ filteredData = SelectSeq(weaponsData, PassesCurrent)
    /\ currentFilters["types"].a # <<>>
    /\ call.fn = "handleResetFilters" =>
          /\ filteredData = weaponsData
          /\ currentFilters = DefaultFilters

\* a search has narrowed a view that a type selection had narrowed before
C29_Witness ==
    /\ call.fn = "handleTableSearch"
    /\ currentFilters["types"] = Arr(<<SMG, SHOTGUN>>)
    /\ currentFilters["search"] = Str(<<"m","8">>)
    /\ Len(weaponsData) = 2
    /\ Len(filteredData) = 1
    /\ filteredData[1]["Weapon"] = Str(<<"M","8","7">>)

\* a step that calls the wrapper / a step that invokes the wrapped function
WrapperCalled == timeout' # timeout
FuncInvoked == timers' # timers /\ call'.fn = "handleTableSearch"

====
